---- MODULE Spec2Model ----
(***************************************************************************)
(* A model of smolquery: the panel manager's visibility state machine and  *)
(* keyboard dispatch (PanelManager.vue), the UserSession value object      *)
(* (models/UserSession.ts) and the session store (services/authService.ts).*)
(*                                                                         *)
(* JavaScript values are tagged tuples so that undefined, null, strings,   *)
(* numbers, Date objects and ISO date strings stay distinct values.        *)
(* Text that the code trims is a sequence of one-character strings.        *)
(***************************************************************************)
EXTENDS Integers, Sequences, FiniteSets, TLC

VARIABLES
    \* ---- PanelManager.vue setup() refs ----
    showResults, showSchema, showSettings, showKeyboardHelp,
    query, queryResults, isExecutingQuery,
    inFlight,          \* handleExecuteQuery calls suspended at their await
    defaultPrevented,  \* did the last DOM event have preventDefault() called
    lastEvent,         \* the last event the component handled
    prev,              \* the refs as they were just before the last event
    \* ---- QueryEditor (PanelManager.vue 381-479) ----
    monacoLoaded,      \* QueryEditor's ref: the fallback textarea is
                       \* rendered while it is false
    editor,            \* QueryEditor's `editor` and the place of its
                       \* onMounted callback: "import" and "nextTick" (no
                       \* editor yet, the callback waits there), "created",
                       \* "null" (the callback ended without an editor)
    \* ---- authService.ts module state and its environment ----
    heap,              \* the UserSession objects created so far; a reference
                       \* is an index into this sequence
    currentSession,    \* authService.ts `currentSession` (a reference)
    storage,           \* localStorage's value under STORAGE_KEY
    now,               \* Date.now(), in milliseconds
    handedOut,         \* every reference returned to a caller so far
    handedSince,       \* the references returned since the last sign-in
    lastCall,          \* the last session-store call and how it ended
    \* ---- UserSession.isAuthenticated() applied to a drawn session ----
    probe, probeResult,
    \* ---- authService.ts Google OAuth state ----
    isGoogleApiInitialized,
    signIns,           \* the signInWithGoogle calls suspended at an await
    providerPending,   \* signOutFromGoogle calls awaiting the provider
    googleCall,        \* the last Google call: the calls it made, in order,
                       \* and how it ended
    \* ---- queryService.ts executeQuery ----
    qobj,              \* the Query object the last executeQuery call works on
    run,               \* that call: where it stands, what it called, how it
                       \* settled
    \* ---- api/query.ts executeEndpoint ----
    request,           \* the payload of the last executeEndpoint call
    response,          \* what that call resolved with, or that it is pending
    \* ---- Query.ts toJSON / fromJSON / clone applied to a Query ----
    qcopy,             \* the Query the last such call returned
    qop,               \* that call and whether it threw
    \* ---- ThemeToggle.vue and what it works on ----
    darkMode,          \* the parent's v-model value (props.modelValue)
    themeStorage,      \* localStorage's value under 'theme'
    documentDark,      \* does document.documentElement carry class 'dark'
    mounted,           \* is the component mounted
    watchPending,      \* the isDark watcher is queued to run
    themeCall          \* the last mount or click: what it saw and emitted

panelVars == <<showResults, showSchema, showSettings, showKeyboardHelp,
               query, queryResults, isExecutingQuery, inFlight,
               defaultPrevented, lastEvent, prev, monacoLoaded, editor>>
storeVars == <<heap, currentSession, storage, handedOut,
               handedSince, lastCall>>
probeVars == <<probe, probeResult>>
googleVars == <<isGoogleApiInitialized, signIns, providerPending,
                googleCall>>
queryVars == <<qobj, run>>
endpointVars == <<request, response>>
modelVars == <<qcopy, qop>>
themeVars == <<darkMode, themeStorage, documentDark, mounted, watchPending,
               themeCall>>
vars == <<panelVars, storeVars, now, probeVars, googleVars, queryVars,
          endpointVars, modelVars, themeVars>>
\* what the panel manager, the session store, the probe, the Google calls
\* and executeQuery leave alone
notPanel == <<storeVars, now, probeVars, googleVars, queryVars, endpointVars,
    modelVars, themeVars>>
notStore == <<panelVars, probeVars, googleVars, queryVars, endpointVars,
    modelVars, themeVars>>
notProbe == <<panelVars, storeVars, googleVars, queryVars, endpointVars,
    modelVars, themeVars>>
notGoogle == <<panelVars, probeVars, queryVars, endpointVars,
    modelVars, themeVars>>
notQuery == <<panelVars, storeVars, probeVars, googleVars, endpointVars,
    modelVars, themeVars>>
\* executeEndpoint works on the session store and through executeQuery
notEndpoint == <<panelVars, probeVars, googleVars, modelVars, themeVars>>
\* the Query value object's methods work on qobj and qcopy
notModel == <<panelVars, storeVars, now, probeVars, googleVars, run,
              endpointVars, themeVars>>
notTheme == <<panelVars, storeVars, now, probeVars, googleVars, queryVars,
              endpointVars, modelVars>>

(***************************************************************************)
(* Bounds                                                                  *)
(***************************************************************************)
MaxInFlight == 2
MaxRefs == 3
MaxSeconds == 1
MaxExtraMs == 1
MaxProbeTime == 3
MaxPending == 1
MaxRuns == 2

(***************************************************************************)
(* JavaScript values                                                       *)
(***************************************************************************)
Undefined == <<"undefined">>
Null == <<"null">>
Str(s) == <<"string", s>>
Num(n) == <<"number", n>>
DateOf(t) == <<"Date", t>>
IsoOf(t) == <<"iso", t>>

\* x ?? d
Coalesce(x, d) == IF x \in {Undefined, Null} THEN d ELSE x
\* !x for the values used here (NaN is not modelled)
Falsy(x) == x \in {Undefined, Null, Str(""), Num(0)}

(***************************************************************************)
(* String.prototype.trim on a sequence of characters                       *)
(***************************************************************************)
\* WhiteSpace and LineTerminator of ECMAScript, which trim() strips and \s
\* matches; a character outside ASCII is written by its code point
WhiteSpace ==
    {" ", "\t", "\n", "\r", "\f", "U+000B", "U+00A0", "U+FEFF", "U+1680",
     "U+2000", "U+2001", "U+2002", "U+2003", "U+2004", "U+2005", "U+2006",
     "U+2007", "U+2008", "U+2009", "U+200A", "U+2028", "U+2029", "U+202F",
     "U+205F", "U+3000"}

RECURSIVE TrimStart(_)
TrimStart(s) ==
    IF s = <<>> THEN <<>>
    ELSE IF Head(s) \in WhiteSpace THEN TrimStart(Tail(s)) ELSE s

RECURSIVE TrimEnd(_)
TrimEnd(s) ==
    IF s = <<>> THEN <<>>
    ELSE IF s[Len(s)] \in WhiteSpace THEN TrimEnd(SubSeq(s, 1, Len(s) - 1)) ELSE s

Trim(s) == TrimEnd(TrimStart(s))

(***************************************************************************)
(* Panel manager: state                                                    *)
(***************************************************************************)
\* the texts the editor's v-model can put into `query`
QueryTexts == { <<>>,
                <<" ", " ">>,
                <<"\t", "\f", "U+00A0">>,
                <<"S", "E", "L", "E", "C", "T", " ", "1">>,
                <<" ", "x", " ">> }

SampleResults == << [id |-> 1, name |-> "Sample Result 1"],
                    [id |-> 2, name |-> "Sample Result 2"] >>

Keys == {"r", "s", ",", "e", "/", "Escape", "Enter", "R"}
\* how the promise awaited in handleExecuteQuery settles: it resolves when
\* the timer fires and rejects if the setTimeout call in its executor throws
AwaitOutcomes == {"resolved", "rejected"}

\* a KeyboardEvent dispatched inside the panel manager; its target is the
\* editor's fallback textarea ("textarea") or any other element inside the
\* panel manager's root ("other")
\* a keydown, with the text of navigator.platform as it is when the event
\* is handled, one character per element; <<"-">> where no handler reads it
KeyboardEvent(target, ctrlKey, metaKey, key, platform) ==
    [kind |-> "keydown", ctrlKey |-> ctrlKey, metaKey |-> metaKey,
     key |-> key, target |-> target, platform |-> platform, outcome |-> "-"]

Event(kind, ctrlKey, key, outcome) ==
    [kind |-> kind, ctrlKey |-> ctrlKey, metaKey |-> FALSE, key |-> key,
     target |-> "-", platform |-> <<"-">>, outcome |-> outcome]
\* a keydown outside the textarea, without the Meta key
KeyEvent(ctrlKey, key) ==
    KeyboardEvent("other", ctrlKey, FALSE, key, <<"-">>)

\* values of navigator.platform: "MacIntel" and "Win32"
Platforms ==
    { <<"M", "a", "c", "I", "n", "t", "e", "l">>, <<"W", "i", "n", "3", "2">> }

\* /Mac|iPod|iPhone|iPad/.test(platform): one of the four alternatives
\* stands somewhere in the text
isMac(platform) ==
    \E part \in { <<"M", "a", "c">>, <<"i", "P", "o", "d">>,
                  <<"i", "P", "h", "o", "n", "e">>, <<"i", "P", "a", "d">> } :
        \E i \in 1..(Len(platform) - Len(part) + 1) :
            \A k \in 1..Len(part) : platform[i + k - 1] = part[k]

\* the key events drawn: outside the textarea every key with and without
\* Ctrl; in the textarea Enter with every state of Ctrl and Meta on every
\* platform (Meta and the platform are read by onTextareaKeydown only), and
\* Ctrl+E and Escape, which onTextareaKeydown passes over and onKeydown
\* acts on
KeyboardEvents ==
    { KeyEvent(ctrlKey, key) : ctrlKey \in BOOLEAN, key \in Keys }
    \cup { KeyboardEvent("textarea", ctrlKey, metaKey, "Enter", platform) :
              ctrlKey \in BOOLEAN, metaKey \in BOOLEAN,
              platform \in Platforms }
    \cup { KeyboardEvent("textarea", TRUE, FALSE, "e",
                         <<"W", "i", "n", "3", "2">>),
           KeyboardEvent("textarea", FALSE, FALSE, "Escape",
                         <<"M", "a", "c", "I", "n", "t", "e", "l">>) }
Other(kind) == Event(kind, FALSE, "-", "-")

Snapshot ==
    [showResults |-> showResults, showSchema |-> showSchema,
     showSettings |-> showSettings, showKeyboardHelp |-> showKeyboardHelp,
     query |-> query, queryResults |-> queryResults,
     isExecutingQuery |-> isExecutingQuery, inFlight |-> inFlight]

dataRefs == <<query, queryResults, isExecutingQuery, inFlight>>
editorVars == <<monacoLoaded, editor>>

(***************************************************************************)
(* Panel manager: the functions of setup()                                 *)
(***************************************************************************)

\* toggleResults as it would be if the panels were mutually exclusive
toggleResults_Exclusive ==
    /\ showResults' = ~showResults
    /\ showSchema' = FALSE
    /\ UNCHANGED <<showSettings, showKeyboardHelp, dataRefs>>

toggleResults ==
    /\ showResults' = ~showResults
    /\ UNCHANGED <<showSchema, showSettings, showKeyboardHelp, dataRefs>>

toggleSchema ==
    /\ showSchema' = ~showSchema
    /\ UNCHANGED <<showResults, showSettings, showKeyboardHelp, dataRefs>>

toggleSettings ==
    /\ showSettings' = ~showSettings
    /\ UNCHANGED <<showResults, showSchema, showKeyboardHelp, dataRefs>>

toggleKeyboardHelp ==
    /\ showKeyboardHelp' = ~showKeyboardHelp
    /\ UNCHANGED <<showResults, showSchema, showSettings, dataRefs>>


\* closeAllPanels forgetting the help overlay
closeAllPanels_KeepsHelp ==
    /\ showResults' = FALSE
    /\ showSchema' = FALSE
    /\ showSettings' = FALSE
    /\ UNCHANGED <<showKeyboardHelp, dataRefs>>

closeAllPanels ==
    /\ showResults' = FALSE
    /\ showSchema' = FALSE
    /\ showSettings' = FALSE
    /\ showKeyboardHelp' = FALSE
    /\ UNCHANGED dataRefs


\* handleExecuteQuery toggling the results panel instead of forcing it open
handleExecuteQuery_Toggles ==
    IF Trim(query) = <<>>
    THEN UNCHANGED <<showResults, showSchema, showSettings, showKeyboardHelp,
                     dataRefs>>
    ELSE /\ inFlight < MaxInFlight
         /\ isExecutingQuery' = TRUE
         /\ showResults' = ~showResults
         /\ inFlight' = inFlight + 1
         /\ UNCHANGED <<showSchema, showSettings, showKeyboardHelp,
                        query, queryResults>>

\* handleExecuteQuery testing the text without trimming it
handleExecuteQuery_NoTrim ==
    IF query = <<>>
    THEN UNCHANGED <<showResults, showSchema, showSettings, showKeyboardHelp,
                     dataRefs>>
    ELSE /\ inFlight < MaxInFlight
         /\ isExecutingQuery' = TRUE
         /\ showResults' = TRUE
         /\ inFlight' = inFlight + 1
         /\ UNCHANGED <<showSchema, showSettings, showKeyboardHelp,
                        query, queryResults>>

\* handleExecuteQuery up to its await: the early return, then the two
\* assignments; the call then waits for the timer promise.
handleExecuteQuery ==
    IF Trim(query) = <<>>
    THEN UNCHANGED <<showResults, showSchema, showSettings, showKeyboardHelp,
                     dataRefs>>
    ELSE /\ inFlight < MaxInFlight
         /\ isExecutingQuery' = TRUE
         /\ showResults' = TRUE
         /\ inFlight' = inFlight + 1
         /\ UNCHANGED <<showSchema, showSettings, showKeyboardHelp,
                        query, queryResults>>


\* the continuation resetting the flag at the end of the try block only
resumeExecuteQuery_NoFinally(outcome) ==
    /\ inFlight > 0
    /\ inFlight' = inFlight - 1
    /\ queryResults' = IF outcome = "resolved" THEN SampleResults ELSE <<>>
    /\ isExecutingQuery' = IF outcome = "resolved" THEN FALSE ELSE isExecutingQuery
    /\ UNCHANGED <<showResults, showSchema, showSettings, showKeyboardHelp,
                   query>>

\* the continuation lowering the flag only when no other call is suspended
resumeExecuteQuery_CountsInFlight(outcome) ==
    /\ inFlight > 0
    /\ inFlight' = inFlight - 1
    /\ queryResults' = IF outcome = "resolved" THEN SampleResults ELSE <<>>
    /\ isExecutingQuery' = (inFlight' > 0)
    /\ UNCHANGED <<showResults, showSchema, showSettings, showKeyboardHelp,
                   query>>

\* handleExecuteQuery from its await on: try / catch / finally
resumeExecuteQuery(outcome) ==
    /\ inFlight > 0
    /\ inFlight' = inFlight - 1
    /\ queryResults' = IF outcome = "resolved" THEN SampleResults ELSE <<>>
    /\ isExecutingQuery' = FALSE
    /\ UNCHANGED <<showResults, showSchema, showSettings, showKeyboardHelp,
                   query>>

\* onKeydown handling Escape whether or not Ctrl is held
onKeydown_EscapeWithCtrl(e) ==
    IF e.key = "Escape"
    THEN defaultPrevented' = TRUE /\ closeAllPanels
    ELSE IF e.ctrlKey
    THEN CASE e.key = "r" -> defaultPrevented' = TRUE /\ toggleResults
           [] e.key = "s" -> defaultPrevented' = TRUE /\ toggleSchema
           [] e.key = "," -> defaultPrevented' = TRUE /\ toggleSettings
           [] e.key = "e" -> defaultPrevented' = TRUE /\ handleExecuteQuery
           [] e.key = "/" -> defaultPrevented' = TRUE /\ toggleKeyboardHelp
           [] OTHER -> /\ defaultPrevented' = FALSE
                       /\ UNCHANGED <<showResults, showSchema, showSettings,
                                      showKeyboardHelp, dataRefs>>
    ELSE /\ defaultPrevented' = FALSE
         /\ UNCHANGED <<showResults, showSchema, showSettings,
                        showKeyboardHelp, dataRefs>>

onKeydown(e) ==
    IF e.ctrlKey
    THEN CASE e.key = "r" -> defaultPrevented' = TRUE /\ toggleResults
           [] e.key = "s" -> defaultPrevented' = TRUE /\ toggleSchema
           [] e.key = "," -> defaultPrevented' = TRUE /\ toggleSettings
           [] e.key = "e" -> defaultPrevented' = TRUE /\ handleExecuteQuery
           [] e.key = "/" -> defaultPrevented' = TRUE /\ toggleKeyboardHelp
           [] OTHER -> /\ defaultPrevented' = FALSE
                       /\ UNCHANGED <<showResults, showSchema, showSettings,
                                      showKeyboardHelp, dataRefs>>
    ELSE IF e.key = "Escape"
         THEN defaultPrevented' = TRUE /\ closeAllPanels
         ELSE /\ defaultPrevented' = FALSE
              /\ UNCHANGED <<showResults, showSchema, showSettings,
                             showKeyboardHelp, dataRefs>>

\* QueryEditor's onTextareaKeydown: `exec`, the test for the execute chord
exec(e) ==
    (IF isMac(e.platform) THEN e.metaKey ELSE e.ctrlKey) /\ e.key = "Enter"

\* QueryEditor's onTextareaKeydown(e): on the execute chord it calls
\* e.preventDefault() and emits `execute`, which the panel manager has bound
\* to handleExecuteQuery
onTextareaKeydown(e) ==
    IF exec(e)
    THEN defaultPrevented' = TRUE /\ handleExecuteQuery
    ELSE /\ defaultPrevented' = FALSE
         /\ UNCHANGED <<showResults, showSchema, showSettings,
                        showKeyboardHelp, dataRefs>>

(***************************************************************************)
(* Panel manager: one action per event                                     *)
(***************************************************************************)
\* a key goes down. In the fallback textarea (rendered while Monaco is not
\* loaded) onTextareaKeydown runs first and the event then bubbles to the
\* root element's onKeydown, no handler stopping it; anywhere else onKeydown
\* is the only handler. The execute chord's key is "Enter", for which
\* onKeydown has no case, so after onTextareaKeydown acted onKeydown leaves
\* the refs and the event as they are; on every other key onTextareaKeydown
\* does nothing and onKeydown decides.
Keydown ==
    /\ \E e \in KeyboardEvents :
           /\ e.target = "textarea" => ~monacoLoaded
           /\ IF e.target = "textarea" /\ exec(e)
              THEN onTextareaKeydown(e)
              ELSE onKeydown(e)
           /\ lastEvent' = e
           /\ prev' = Snapshot
    /\ UNCHANGED editorVars
    /\ UNCHANGED notPanel

ClickCloseResults ==
    /\ toggleResults
    /\ defaultPrevented' = FALSE
    /\ lastEvent' = Other("close-results")
    /\ prev' = Snapshot
    /\ UNCHANGED editorVars
    /\ UNCHANGED notPanel

ClickCloseSchema ==
    /\ toggleSchema
    /\ defaultPrevented' = FALSE
    /\ lastEvent' = Other("close-schema")
    /\ prev' = Snapshot
    /\ UNCHANGED editorVars
    /\ UNCHANGED notPanel

ClickCloseSettings ==
    /\ toggleSettings
    /\ defaultPrevented' = FALSE
    /\ lastEvent' = Other("close-settings")
    /\ prev' = Snapshot
    /\ UNCHANGED editorVars
    /\ UNCHANGED notPanel

\* the help overlay's Close button exists only while the overlay is shown
ClickCloseHelp ==
    /\ showKeyboardHelp
    /\ showKeyboardHelp' = FALSE
    /\ UNCHANGED <<showResults, showSchema, showSettings, dataRefs>>
    /\ defaultPrevented' = FALSE
    /\ lastEvent' = Other("close-help")
    /\ prev' = Snapshot
    /\ UNCHANGED editorVars
    /\ UNCHANGED notPanel

\* QueryEditor's update:modelValue, bound by v-model="query": emitted by
\* onTextareaInput, or by onDidChangeModelContent once the editor is there
EditorInput ==
    /\ monacoLoaded => editor = "created"
    /\ \E text \in QueryTexts :
           /\ query' = text
           /\ UNCHANGED <<showResults, showSchema, showSettings, showKeyboardHelp,
                          queryResults, isExecutingQuery, inFlight>>
           /\ defaultPrevented' = FALSE
           /\ lastEvent' = Other("input")
           /\ prev' = Snapshot
    /\ UNCHANGED editorVars
    /\ UNCHANGED notPanel

\* QueryEditor's onMounted from `await import('monaco-editor')` to
\* `await nextTick()`: when the import resolved, monacoLoaded is set and the
\* editor's container takes the place of the fallback textarea; when it
\* was rejected, the catch block ends the callback and the textarea stays.
\* The panel manager handles no event here.
MonacoLoads ==
    /\ editor = "import"
    /\ \E loaded \in BOOLEAN :
           IF loaded
           THEN monacoLoaded' = TRUE /\ editor' = "nextTick"
           ELSE monacoLoaded' = FALSE /\ editor' = "null"
    /\ UNCHANGED <<showResults, showSchema, showSettings, showKeyboardHelp,
                   dataRefs, defaultPrevented, lastEvent, prev>>
    /\ UNCHANGED notPanel

\* QueryEditor's onMounted after `await nextTick()`: the editor is created
\* in its container and the command for Ctrl/Cmd+Enter is registered with
\* it; when that throws, the catch block resets monacoLoaded and the
\* textarea is back
EditorMounts ==
    /\ editor = "nextTick"
    /\ \E created \in BOOLEAN :
           IF created
           THEN monacoLoaded' = monacoLoaded /\ editor' = "created"
           ELSE monacoLoaded' = FALSE /\ editor' = "null"
    /\ UNCHANGED <<showResults, showSchema, showSettings, showKeyboardHelp,
                   dataRefs, defaultPrevented, lastEvent, prev>>
    /\ UNCHANGED notPanel

\* the Monaco editor runs the command registered for Ctrl/Cmd+Enter, which
\* emits `execute`. The key event behind it is dispatched inside the editor
\* widget: whether its default is suppressed is the widget's doing, not the
\* component's, so either may be the case.
EditorExecute ==
    /\ editor = "created"
    /\ handleExecuteQuery
    /\ defaultPrevented' \in BOOLEAN
    /\ lastEvent' = Other("execute")
    /\ prev' = Snapshot
    /\ UNCHANGED editorVars
    /\ UNCHANGED notPanel

\* the awaited promise of one suspended call settles
Settle ==
    /\ \E outcome \in AwaitOutcomes :
           /\ resumeExecuteQuery(outcome)
           /\ defaultPrevented' = FALSE
           /\ lastEvent' = Event("settle", FALSE, "-", outcome)
           /\ prev' = Snapshot
    /\ UNCHANGED editorVars
    /\ UNCHANGED notPanel

PanelInit ==
    /\ showResults = FALSE
    /\ showSchema = FALSE
    /\ showSettings = FALSE
    /\ showKeyboardHelp = FALSE
    /\ query = <<>>
    /\ queryResults = <<>>
    /\ isExecutingQuery = FALSE
    /\ inFlight = 0
    /\ defaultPrevented = FALSE
    /\ lastEvent = Other("mounted")
    /\ prev = Snapshot
    /\ monacoLoaded = FALSE
    /\ editor = "import"

(***************************************************************************)
(* UserSession (models/UserSession.ts)                                     *)
(***************************************************************************)
\* Date#toISOString, new Date(isoString), Date#getTime
toISOString(d) == IsoOf(d[2])
NewDate(iso) == DateOf(iso[2])
getTime(d) == d[2]

\* JSON.stringify of a plain object, JSON.parse of such a text; any other
\* text makes JSON.parse throw
JsonText(obj) == <<"json", obj>>
RawText(chars) == <<"text", chars>>
IsJsonText(raw) == raw[1] = "json"
JsonParse(raw) == raw[2]

NoPayload ==
    [userId |-> Undefined, provider |-> Undefined, accessToken |-> Undefined,
     refreshToken |-> Undefined, expiresAt |-> Undefined]

\* constructor(payload?)
UserSession(payload) ==
    [userId |-> Coalesce(payload.userId, Null),
     provider |-> Coalesce(payload.provider, Null),
     accessToken |-> Coalesce(payload.accessToken, Null),
     refreshToken |-> Coalesce(payload.refreshToken, Null),
     expiresAt |-> IF Falsy(payload.expiresAt) THEN Null
                   ELSE NewDate(payload.expiresAt)]

fromJSON(json) == UserSession(json)

\* toJSON writing the expiry out as null
toJSON_OmitsExpiry(s) ==
    [userId |-> Coalesce(s.userId, Null),
     provider |-> Coalesce(s.provider, Null),
     accessToken |-> Coalesce(s.accessToken, Null),
     refreshToken |-> Coalesce(s.refreshToken, Null),
     expiresAt |-> Null]

toJSON(s) ==
    [userId |-> Coalesce(s.userId, Null),
     provider |-> Coalesce(s.provider, Null),
     accessToken |-> Coalesce(s.accessToken, Null),
     refreshToken |-> Coalesce(s.refreshToken, Null),
     expiresAt |-> IF Falsy(s.expiresAt) THEN Null ELSE toISOString(s.expiresAt)]


\* isAuthenticated comparing with <= : expired at the very instant of expiry
isAuthenticated_ExpiredAtEqual(s, t) ==
    IF Falsy(s.accessToken) THEN FALSE
    ELSE IF ~Falsy(s.expiresAt) /\ getTime(s.expiresAt) <= t THEN FALSE
    ELSE TRUE

\* isAuthenticated() evaluated when Date.now() is t
isAuthenticated(s, t) ==
    IF Falsy(s.accessToken) THEN FALSE
    ELSE IF ~Falsy(s.expiresAt) /\ getTime(s.expiresAt) < t THEN FALSE
    ELSE TRUE


\* clear() leaving the refresh token behind
clear_KeepsRefreshToken(s) ==
    [userId |-> Null, provider |-> Null, accessToken |-> Null,
     refreshToken |-> s.refreshToken, expiresAt |-> Null]

\* clear() leaving the access token behind
clear_KeepsAccessToken(s) ==
    [userId |-> Null, provider |-> Null, accessToken |-> s.accessToken,
     refreshToken |-> Null, expiresAt |-> Null]

clear(s) ==
    [userId |-> Null, provider |-> Null, accessToken |-> Null,
     refreshToken |-> Null, expiresAt |-> Null]

(***************************************************************************)
(* Session store (services/authService.ts)                                 *)
(***************************************************************************)

\* saveToStorage without its try / catch
saveToStorage_NoCatch(session, store, setItemThrows) ==
    IF setItemThrows
    THEN [storage |-> store, threw |-> TRUE]
    ELSE [storage |-> JsonText(toJSON(session)), threw |-> FALSE]

\* saveToStorage(session): the store's new value and whether the call threw.
\* setItemThrows says whether localStorage.setItem throws in this call.
saveToStorage(session, store, setItemThrows) ==
    IF setItemThrows
    THEN [storage |-> store, threw |-> FALSE]
    ELSE [storage |-> JsonText(toJSON(session)), threw |-> FALSE]

\* loadFromStorage(): null or a UserSession, and whether the call threw.
\* getItemThrows says whether localStorage.getItem throws in this call.
loadFromStorage(store, getItemThrows) ==
    IF getItemThrows
    THEN [isNull |-> TRUE, session |-> UserSession(NoPayload), threw |-> FALSE]
    ELSE IF Falsy(store) \/ store = RawText(<<>>)
    THEN [isNull |-> TRUE, session |-> UserSession(NoPayload), threw |-> FALSE]
    ELSE IF IsJsonText(store)
    THEN [isNull |-> FALSE, session |-> fromJSON(JsonParse(store)), threw |-> FALSE]
    ELSE [isNull |-> TRUE, session |-> UserSession(NoPayload), threw |-> FALSE]

\* let currentSession = loadFromStorage() || new UserSession()
moduleInit(store, getItemThrows) ==
    LET loaded == loadFromStorage(store, getItemThrows)
    IN  [session |-> IF loaded.isNull THEN UserSession(NoPayload)
                     ELSE loaded.session,
         threw |-> loaded.threw]

getSession == currentSession

\* the module's isAuthenticated view and getAuthToken()
getAuthToken ==
    IF isAuthenticated(heap[getSession], now)
    THEN Coalesce(heap[getSession].accessToken, Null)
    ELSE Null

NoRef == 0

\* the record of one call: seq alternates so that two equal calls in a row
\* are still two calls; for a restart, beforeName is the last call of the
\* process that stopped
Call(name, payload, storeThrew, threw, ret) ==
    [name |-> name, payload |-> payload, storeThrew |-> storeThrew,
     threw |-> threw, ret |-> ret, seq |-> 1 - lastCall.seq,
     beforeName |-> IF name = "restart" THEN lastCall.name ELSE "none"]

\* the SignInPayload values callers pass
SignInPayload(provider, userId, accessToken, refreshToken, expiresIn) ==
    [provider |-> provider, userId |-> userId, accessToken |-> accessToken,
     refreshToken |-> refreshToken, expiresIn |-> expiresIn]

SignInPayloads ==
    { SignInPayload(Undefined, Undefined, Str("abc"), Undefined, Undefined),
      SignInPayload(Str("google"), Str("u1"), Str("tok2"), Str("r1"), Num(1)),
      SignInPayload(Undefined, Undefined, Str("abc"), Undefined, Num(0)),
      SignInPayload(Str("test"), Undefined, Str(""), Null, Null) }


\* signInWithToken persisting and returning the session without installing it
signInWithToken_NotInstalled(payload, setItemThrows) ==
    LET expiresAt == IF Falsy(payload.expiresIn) THEN Null
                     ELSE DateOf(now + payload.expiresIn[2] * 1000)
        s == UserSession(
                 [provider |-> Coalesce(payload.provider, Str("token")),
                  userId |-> Coalesce(payload.userId, Null),
                  accessToken |-> payload.accessToken,
                  refreshToken |-> Coalesce(payload.refreshToken, Null),
                  expiresAt |-> IF Falsy(expiresAt) THEN Null
                                ELSE toISOString(expiresAt)])
        ref == Len(heap) + 1
        saved == saveToStorage(s, storage, setItemThrows)
    IN  /\ Len(heap) < MaxRefs
        /\ heap' = Append(heap, s)
        /\ currentSession' = currentSession
        /\ storage' = saved.storage
        /\ lastCall' = Call("signInWithToken", payload, setItemThrows,
                            saved.threw, IF saved.threw THEN NoRef ELSE ref)
        /\ handedOut' = IF saved.threw THEN handedOut ELSE handedOut \cup {ref}
        /\ handedSince' = IF saved.threw THEN {} ELSE {ref}

signInWithToken(payload, setItemThrows) ==
    LET expiresAt == IF Falsy(payload.expiresIn) THEN Null
                     ELSE DateOf(now + payload.expiresIn[2] * 1000)
        s == UserSession(
                 [provider |-> Coalesce(payload.provider, Str("token")),
                  userId |-> Coalesce(payload.userId, Null),
                  accessToken |-> payload.accessToken,
                  refreshToken |-> Coalesce(payload.refreshToken, Null),
                  expiresAt |-> IF Falsy(expiresAt) THEN Null
                                ELSE toISOString(expiresAt)])
        ref == Len(heap) + 1
        saved == saveToStorage(s, storage, setItemThrows)
    IN  /\ Len(heap) < MaxRefs
        /\ heap' = Append(heap, s)
        /\ currentSession' = ref
        /\ storage' = saved.storage
        /\ lastCall' = Call("signInWithToken", payload, setItemThrows,
                            saved.threw, IF saved.threw THEN NoRef ELSE ref)
        /\ handedOut' = IF saved.threw THEN handedOut ELSE handedOut \cup {ref}
        /\ handedSince' = IF saved.threw THEN {} ELSE {ref}


\* signOut installing a fresh empty session instead of clearing in place
signOut_Replaces(removeItemThrows) ==
    /\ Len(heap) < MaxRefs
    /\ heap' = Append(heap, UserSession(NoPayload))
    /\ currentSession' = Len(heap) + 1
    /\ storage' = IF removeItemThrows THEN storage ELSE Null
    /\ lastCall' = Call("signOut", NoPayload, removeItemThrows, FALSE, NoRef)
    /\ UNCHANGED <<handedOut, handedSince>>

\* signOut clearing the session in memory and leaving the persisted entry
signOut_KeepsEntry(removeItemThrows) ==
    /\ heap' = [heap EXCEPT ![currentSession] = clear(@)]
    /\ storage' = storage
    /\ lastCall' = Call("signOut", NoPayload, removeItemThrows, FALSE, NoRef)
    /\ UNCHANGED <<currentSession, handedOut, handedSince>>

signOut(removeItemThrows) ==
    /\ heap' = [heap EXCEPT ![currentSession] = clear(@)]
    /\ storage' = IF removeItemThrows THEN storage ELSE Null
    /\ lastCall' = Call("signOut", NoPayload, removeItemThrows, FALSE, NoRef)
    /\ UNCHANGED <<currentSession, handedOut, handedSince>>

SignInWithToken ==
    /\ \E payload \in SignInPayloads, setItemThrows \in BOOLEAN :
           signInWithToken(payload, setItemThrows)
    /\ UNCHANGED now
    /\ UNCHANGED notStore

SignOut ==
    /\ \E removeItemThrows \in BOOLEAN : signOut(removeItemThrows)
    /\ UNCHANGED now
    /\ UNCHANGED notStore

\* a session as clear() leaves it
IsEmptySession(s) ==
    /\ s.userId = Null
    /\ s.provider = Null
    /\ s.accessToken = Null
    /\ s.refreshToken = Null
    /\ s.expiresAt = Null

\* a caller that holds a session object calls clear() on it; no function of
\* the store is called, so the persisted entry stays; clear() on an empty
\* session changes nothing
HolderClears ==
    /\ \E ref \in handedOut :
           /\ ~IsEmptySession(heap[ref])
           /\ heap' = [heap EXCEPT ![ref] = clear(@)]
    /\ UNCHANGED <<currentSession, storage, handedOut, handedSince, lastCall,
                   now>>
    /\ UNCHANGED notStore

GetSession ==
    /\ handedOut' = handedOut \cup {getSession}
    /\ handedSince' = handedSince \cup {getSession}
    /\ lastCall' = Call("getSession", NoPayload, FALSE, FALSE, getSession)
    /\ UNCHANGED <<heap, currentSession, storage, now>>
    /\ UNCHANGED notStore

\* the instants at which the clock is observed: whole seconds since the
\* module was loaded, and up to MaxExtraMs milliseconds past each
ClockValues ==
    {sec * 1000 + ms : sec \in 0..MaxSeconds, ms \in 0..MaxExtraMs}

\* time passes between calls
Tick ==
    /\ \E t \in ClockValues : t > now /\ now' = t
    /\ UNCHANGED storeVars
    /\ UNCHANGED notStore

\* what localStorage may hold under STORAGE_KEY when the module is loaded
InitialStorage ==
    { Null,
      RawText(<<>>),
      RawText(<<"{", "o", "o", "p", "s">>),
      JsonText(toJSON(UserSession(
          [userId |-> Str("u0"), provider |-> Str("google"),
           accessToken |-> Str("old"), refreshToken |-> Null,
           expiresAt |-> IsoOf(1000)]))),
      JsonText([NoPayload EXCEPT !.accessToken = Str("old")]) }

StoreInit ==
    \E store \in InitialStorage, getItemThrows \in BOOLEAN :
        LET loaded == moduleInit(store, getItemThrows)
        IN  /\ storage = store
            /\ heap = <<loaded.session>>
            /\ currentSession = 1
            /\ handedOut = {}
            /\ handedSince = {}
            /\ lastCall = [name |-> "load", payload |-> NoPayload,
                           storeThrew |-> getItemThrows, threw |-> loaded.threw,
                           ret |-> NoRef, seq |-> 0, beforeName |-> "none"]

(***************************************************************************)
(* Google OAuth (services/authService.ts)                                  *)
(***************************************************************************)
\* a slot for one signInWithGoogle call: the await the call is suspended at
\* ("idle" when the slot holds no call) and the session signInWithToken
\* returned to it. While the call waits at `await initializeGoogleAPI()` its
\* pc tells how far initializeGoogleAPI() has come: "gapi.load",
\* "gapi.auth2.init", "ready" (its promise is resolved) or "rejected" (its
\* promise is rejected); the call itself goes on in a later turn.
NoSignIn == [pc |-> "idle", session |-> NoRef]

\* the signed-in GoogleUser: getBasicProfile().getId() and getAuthResponse()
GoogleUser ==
    [id |-> Str("g1"), access_token |-> Str("gtok"), expires_in |-> Num(3600)]

\* the record of a Google call that has ended; `log` is the order in which
\* signOutFromGoogle made its calls
GoogleCall(name, outcome, log, threw, ret) ==
    [name |-> name, outcome |-> outcome, log |-> log, threw |-> threw,
     ret |-> ret]

\* initializeGoogleAPI() up to its first await: it returns at once when the
\* flag is set, throws when `gapi` is undefined, and calls gapi.load('auth2')
\* otherwise
initializeGoogleAPI(gapi) ==
    IF isGoogleApiInitialized THEN "returned"
    ELSE IF ~gapi THEN "threw"
    ELSE "gapi.load"

\* signInWithGoogle ending without its try / catch: what was thrown leaves
\* the call
signInWithGoogleReturnsNull_NoCatch(i, outcome) ==
    /\ signIns' = [signIns EXCEPT ![i] = NoSignIn]
    /\ googleCall' = GoogleCall("signInWithGoogle", outcome, <<>>,
                                outcome # "cancelled", NoRef)
    /\ UNCHANGED storeVars

\* signInWithGoogle() ends with null: `return null` for a user who is not
\* signed in, and the catch block for whatever was thrown
signInWithGoogleReturnsNull(i, outcome) ==
    /\ signIns' = [signIns EXCEPT ![i] = NoSignIn]
    /\ googleCall' = GoogleCall("signInWithGoogle", outcome, <<>>, FALSE,
                                NoRef)
    /\ UNCHANGED storeVars

\* signInWithGoogle() up to its first await, `await initializeGoogleAPI()`:
\* the call is left pending whatever initializeGoogleAPI() did, also when it
\* has thrown and its promise is rejected already
signInWithGoogle(i, gapi) ==
    LET init == initializeGoogleAPI(gapi)
    IN  /\ signIns[i].pc = "idle"
        /\ signIns' = [signIns EXCEPT ![i] =
               [pc |-> CASE init = "returned" -> "ready"
                         [] init = "threw" -> "rejected"
                         [] OTHER -> "gapi.load",
                session |-> NoRef]]
        /\ UNCHANGED googleCall
        /\ UNCHANGED storeVars
        /\ UNCHANGED <<isGoogleApiInitialized, providerPending>>

\* gapi.load('auth2') calls back: initializeGoogleAPI() goes on to
\* gapi.auth2.init(), or logs and rethrows what onerror rejected with
gapiLoadSettles(i, loaded) ==
    /\ signIns[i].pc = "gapi.load"
    /\ signIns' = [signIns EXCEPT ![i].pc =
           IF loaded THEN "gapi.auth2.init" ELSE "rejected"]
    /\ UNCHANGED googleCall
    /\ UNCHANGED storeVars
    /\ UNCHANGED <<isGoogleApiInitialized, providerPending>>

\* gapi.auth2.init() settles: initializeGoogleAPI() sets the flag and
\* returns, or logs and rethrows
auth2InitSettles(i, initialized) ==
    /\ signIns[i].pc = "gapi.auth2.init"
    /\ isGoogleApiInitialized' =
           IF initialized THEN TRUE ELSE isGoogleApiInitialized
    /\ signIns' = [signIns EXCEPT ![i].pc =
           IF initialized THEN "ready" ELSE "rejected"]
    /\ UNCHANGED googleCall
    /\ UNCHANGED storeVars
    /\ UNCHANGED providerPending

\* signInWithGoogle() resumes after `await initializeGoogleAPI()`: when
\* that was rejected the catch block returns null; otherwise the call
\* fetches the auth instance and opens the provider's sign-in
signInWithGoogleResumes(i, gapi, instance) ==
    /\ signIns[i].pc \in {"ready", "rejected"}
    /\ IF signIns[i].pc = "rejected"
       THEN signInWithGoogleReturnsNull(i, "init-failed")
       ELSE IF ~gapi
       THEN signInWithGoogleReturnsNull(i, "no-gapi")
       ELSE IF ~instance
       THEN signInWithGoogleReturnsNull(i, "no-instance")
       ELSE /\ signIns' = [signIns EXCEPT ![i].pc = "authInstance.signIn"]
            /\ UNCHANGED googleCall
            /\ UNCHANGED storeVars
    /\ UNCHANGED <<isGoogleApiInitialized, providerPending>>

\* authInstance.signIn() settles: the call ends with null when it rejects or
\* the user is not signed in, and calls signInWithToken with the Google
\* credentials otherwise; one reference is left for the calls that follow
authInstanceSignInSettles(i, settled, setItemThrows) ==
    /\ signIns[i].pc = "authInstance.signIn"
    /\ IF settled = "rejects"
       THEN signInWithGoogleReturnsNull(i, "signIn-rejected")
       ELSE IF settled = "not-signed-in"
       THEN signInWithGoogleReturnsNull(i, "cancelled")
       ELSE /\ Len(heap) + 1 < MaxRefs
            /\ signInWithToken(
                   SignInPayload(Str("google"), GoogleUser.id,
                                 GoogleUser.access_token, Undefined,
                                 GoogleUser.expires_in),
                   setItemThrows)
            /\ signIns' = [signIns EXCEPT ![i] =
                   [pc |-> "signInWithToken", session |-> currentSession']]
            /\ UNCHANGED googleCall
    /\ UNCHANGED <<isGoogleApiInitialized, providerPending>>

\* signInWithGoogle() resumes after `await signInWithToken(...)` and returns
\* the session it was given
signInWithGoogleReturns(i) ==
    /\ signIns[i].pc = "signInWithToken"
    /\ signIns' = [signIns EXCEPT ![i] = NoSignIn]
    /\ googleCall' = GoogleCall("signInWithGoogle", "completed", <<>>,
                                FALSE, signIns[i].session)
    /\ UNCHANGED storeVars
    /\ UNCHANGED <<isGoogleApiInitialized, providerPending>>

\* what the provider looks like to one signOutFromGoogle call: is `gapi`
\* defined, is gapi.auth2 there, and what getAuthInstance() does
SignOutEnvs ==
    { env \in [gapi : BOOLEAN,
               getAuthInstance : {"undefined", "throws", "instance"}] :
          env.gapi \/ env.getAuthInstance = "undefined" }

\* signOutFromGoogle notifying the provider before it signs out locally
signOutFromGoogle_ProviderFirst(env, removeItemThrows) ==
    LET asks == isGoogleApiInitialized /\ env.gapi
        notifies == asks /\ env.getAuthInstance = "instance"
        log == (IF asks THEN <<"getAuthInstance">> ELSE <<>>)
               \o (IF notifies THEN <<"authInstance.signOut">> ELSE <<>>)
               \o <<"signOut">>
    IN  /\ signOut(removeItemThrows)
        /\ providerPending' = IF notifies THEN providerPending + 1
                              ELSE providerPending
        /\ googleCall' = GoogleCall("signOutFromGoogle",
                                    IF notifies THEN "awaiting" ELSE "done",
                                    log, FALSE, NoRef)
        /\ UNCHANGED <<isGoogleApiInitialized, signIns>>

\* signOutFromGoogle() up to its await: the local sign-out, then the
\* provider's signOut() is called when the API is initialised and there is
\* an auth instance
signOutFromGoogle(env, removeItemThrows) ==
    LET asks == isGoogleApiInitialized /\ env.gapi
        notifies == asks /\ env.getAuthInstance = "instance"
        log == <<"signOut">>
               \o (IF asks THEN <<"getAuthInstance">> ELSE <<>>)
               \o (IF notifies THEN <<"authInstance.signOut">> ELSE <<>>)
    IN  /\ signOut(removeItemThrows)
        /\ providerPending' = IF notifies THEN providerPending + 1
                              ELSE providerPending
        /\ googleCall' = GoogleCall("signOutFromGoogle",
                                    IF notifies THEN "awaiting" ELSE "done",
                                    log, FALSE, NoRef)
        /\ UNCHANGED <<isGoogleApiInitialized, signIns>>

\* the provider's signOut() settles and signOutFromGoogle returns
providerSignOutSettles(outcome) ==
    /\ providerPending > 0
    /\ providerPending' = providerPending - 1
    /\ googleCall' = GoogleCall("providerSignOut", outcome,
                                <<>>, FALSE, NoRef)
    /\ UNCHANGED <<isGoogleApiInitialized, signIns>>
    /\ UNCHANGED storeVars

\* the slots a new call may take: the lowest idle one
FreeSlot(i) ==
    /\ signIns[i].pc = "idle"
    /\ \A j \in 1..(i - 1) : signIns[j].pc # "idle"

SignInWithGoogle ==
    /\ \E i \in 1..MaxPending, gapi \in BOOLEAN :
           FreeSlot(i) /\ signInWithGoogle(i, gapi)
    /\ UNCHANGED now
    /\ UNCHANGED notGoogle

GapiLoadSettles ==
    /\ \E i \in 1..MaxPending, loaded \in BOOLEAN : gapiLoadSettles(i, loaded)
    /\ UNCHANGED now
    /\ UNCHANGED notGoogle

Auth2InitSettles ==
    /\ \E i \in 1..MaxPending, initialized \in BOOLEAN :
           auth2InitSettles(i, initialized)
    /\ UNCHANGED now
    /\ UNCHANGED notGoogle

SignInWithGoogleResumes ==
    /\ \E i \in 1..MaxPending, gapi \in BOOLEAN, instance \in BOOLEAN :
           signInWithGoogleResumes(i, gapi, instance)
    /\ UNCHANGED now
    /\ UNCHANGED notGoogle

AuthInstanceSignInSettles ==
    /\ \E i \in 1..MaxPending,
          settled \in {"rejects", "not-signed-in", "signed-in"},
          setItemThrows \in BOOLEAN :
           authInstanceSignInSettles(i, settled, setItemThrows)
    /\ UNCHANGED now
    /\ UNCHANGED notGoogle

SignInWithGoogleReturns ==
    /\ \E i \in 1..MaxPending : signInWithGoogleReturns(i)
    /\ UNCHANGED now
    /\ UNCHANGED notGoogle

\* the clock moves on while a call waits for the provider's sign-in
ClockMovesInSignIn ==
    /\ \E i \in 1..MaxPending : signIns[i].pc = "authInstance.signIn"
    /\ now < MaxExtraMs
    /\ now' = now + 1
    /\ UNCHANGED storeVars
    /\ UNCHANGED googleVars
    /\ UNCHANGED notGoogle

SignOutFromGoogle ==
    /\ providerPending < MaxPending
    /\ \E env \in SignOutEnvs, removeItemThrows \in BOOLEAN :
           signOutFromGoogle(env, removeItemThrows)
    /\ UNCHANGED now
    /\ UNCHANGED notGoogle

ProviderSignOutSettles ==
    /\ \E outcome \in {"resolved", "rejected"} :
           providerSignOutSettles(outcome)
    /\ UNCHANGED now
    /\ UNCHANGED notGoogle

GoogleInit ==
    /\ isGoogleApiInitialized = FALSE
    /\ providerPending = 0
    /\ signIns = [i \in 1..MaxPending |-> NoSignIn]
    /\ googleCall = [name |-> "none", outcome |-> "none", log |-> <<>>,
                     threw |-> FALSE, ret |-> NoRef]

GoogleIdle == GoogleInit

\* the page is reloaded: authService.ts is evaluated again in a new
\* process. The objects and the pending calls of the old process are gone,
\* `currentSession` is set from what localStorage holds now (line 18) and
\* `isGoogleApiInitialized` is false again (line 93)
Restart ==
    /\ \E getItemThrows \in BOOLEAN :
           LET loaded == moduleInit(storage, getItemThrows)
           IN  /\ heap' = <<loaded.session>>
               /\ currentSession' = 1
               /\ handedOut' = {}
               /\ handedSince' = {}
               /\ lastCall' = Call("restart", NoPayload, getItemThrows,
                                   loaded.threw, NoRef)
    /\ isGoogleApiInitialized' = FALSE
    /\ signIns' = [i \in 1..MaxPending |-> NoSignIn]
    /\ providerPending' = 0
    /\ UNCHANGED googleCall
    /\ UNCHANGED <<storage, now>>
    /\ UNCHANGED notGoogle

(***************************************************************************)
(* UserSession.isAuthenticated() as a function of the session and the time *)
(***************************************************************************)
ProbePayloads ==
    { [NoPayload EXCEPT !.accessToken = tok, !.expiresAt = exp] :
        tok \in {Undefined, Null, Str(""), Str("abc")},
        exp \in {Undefined, Null} \cup {IsoOf(t) : t \in 0..MaxProbeTime} }

ProbeInit ==
    /\ probe \in {UserSession(p) : p \in ProbePayloads}
    /\ probeResult = [evaluated |-> FALSE, value |-> FALSE, at |-> 0,
                      seq |-> 0]

\* isAuthenticated() is called on the session; seq alternates so that two
\* equal evaluations in a row are still two evaluations
ProbeEvaluate ==
    /\ probeResult' = [evaluated |-> TRUE, value |-> isAuthenticated(probe, now),
                       at |-> now, seq |-> 1 - probeResult.seq]
    /\ UNCHANGED <<probe, now>>
    /\ UNCHANGED notProbe

\* clear() is called on the session
ProbeClear ==
    /\ probe' = clear(probe)
    /\ UNCHANGED <<probeResult, now>>
    /\ UNCHANGED notProbe

ProbeTick ==
    /\ now < MaxProbeTime + 1
    /\ now' = now + 1
    /\ UNCHANGED <<probe, probeResult>>
    /\ UNCHANGED notProbe

(***************************************************************************)
(* JavaScript strings given by their pieces, and regular expressions       *)
(***************************************************************************)
\* a string built by concatenation is the sequence of its pieces; the empty
\* sequence is the empty string
StrOf(pieces) == IF pieces = <<>> THEN Str("") ELSE <<"string">> \o pieces

\* typeof v === 'string'
IsString(v) == v[1] \in {"string", "text"}
\* !v, also for a string given by its characters
Not(v) == IF v[1] = "text" THEN v[2] = <<>> ELSE Falsy(v)

UpperCase ==
    <<"A", "B", "C", "D", "E", "F", "G", "H", "I", "J", "K", "L", "M",
      "N", "O", "P", "Q", "R", "S", "T", "U", "V", "W", "X", "Y", "Z">>
LowerCase ==
    <<"a", "b", "c", "d", "e", "f", "g", "h", "i", "j", "k", "l", "m",
      "n", "o", "p", "q", "r", "s", "t", "u", "v", "w", "x", "y", "z">>
Digits == {"0", "1", "2", "3", "4", "5", "6", "7", "8", "9"}

\* the /i flag: one character folded to lower case
Lower(c) ==
    IF \E i \in 1..26 : UpperCase[i] = c
    THEN LowerCase[CHOOSE i \in 1..26 : UpperCase[i] = c]
    ELSE c

\* \w
WordChars ==
    {UpperCase[i] : i \in 1..26} \cup {LowerCase[i] : i \in 1..26}
        \cup Digits \cup {"_"}

\* does the literal word, case folded, stand in text at position i
MatchesAt(text, i, word) ==
    /\ i + Len(word) - 1 <= Len(text)
    /\ \A k \in 1..Len(word) : Lower(text[i + k - 1]) = word[k]

\* /^\s*select\b/i.test(sql)
isSelect(sql) ==
    LET s == TrimStart(sql)
    IN  /\ MatchesAt(s, 1, <<"s", "e", "l", "e", "c", "t">>)
        /\ (Len(s) = 6 \/ s[7] \notin WordChars)

\* /from\s+numbers/i.test(sql)
fromNumbers(sql) ==
    \E i \in 1..Len(sql) :
        /\ MatchesAt(sql, i, <<"f", "r", "o", "m">>)
        /\ \E k \in 1..Len(sql) :
               /\ i + 3 + k <= Len(sql)
               /\ \A j \in 1..k : sql[i + 3 + j] \in WhiteSpace
               /\ MatchesAt(sql, i + 4 + k,
                            <<"n", "u", "m", "b", "e", "r", "s">>)

(***************************************************************************)
(* Query (models/Query.ts)                                                 *)
(***************************************************************************)
\* the SQL texts callers pass, character by character
SqlTexts ==
    { <<"S", "E", "L", "E", "C", "T", " ", "1">>,
      <<"s", "e", "l", "e", "c", "t", " ", "*", " ", "f", "r", "o", "m", " ", "n", "u", "m", "b", "e", "r", "s">>,
      <<"S", "E", "L", "E", "C", "T", " ", "n", " ", "F", "R", "O", "M", " ", " ", "N", "u", "m", "b", "e", "r", "s">>,
      <<"s", "e", "l", "e", "c", "t", " ", "n", " ", "f", "r", "o", "m", "\t", "n", "u", "m", "b", "e", "r", "s">>,
      <<" ", " ", "s", "e", "l", "e", "c", "t", " ", "1", " ">>,
      <<"D", "R", "O", "P", " ", "t">>,
      <<"s", "e", "l", "e", "c", "t", "x", " ", "f", "r", "o", "m", " ", "n", "u", "m", "b", "e", "r", "s">>,
      <<" ">> }

\* constructor(payload), created when Date.now() is t
Query(payload, t) ==
    [id |-> payload.id,
     sql |-> payload.sql,
     name |-> payload.name,
     createdAt |-> Coalesce(payload.createdAt, DateOf(t)),
     updatedAt |-> Coalesce(payload.updatedAt, DateOf(t)),
     status |-> Coalesce(payload.status, Str("draft")),
     lastError |-> Coalesce(payload.lastError, Null)]

\* a QueryPayload with the optional fields left out
QueryPayload(id, sql) ==
    [isObject |-> TRUE, id |-> id, sql |-> sql, name |-> Undefined,
     createdAt |-> Undefined, updatedAt |-> Undefined, status |-> Undefined,
     lastError |-> Undefined]

\* a value that is not an object, handed in where a payload is expected
NotAnObject == [QueryPayload(Undefined, Undefined) EXCEPT !.isObject = FALSE]

\* Query.fromJSON(json): the TypeError's message, or the Query
QueryFromJSON(json, t) ==
    IF ~json.isObject
    THEN [threw |-> TRUE, message |-> <<"Invalid Query payload">>,
          q |-> Query(json, t)]
    ELSE IF ~IsString(json.id) \/ ~IsString(json.sql)
    THEN [threw |-> TRUE,
          message |-> <<"Query payload missing required fields: id, sql">>,
          q |-> Query(json, t)]
    ELSE [threw |-> FALSE, message |-> <<>>,
          q |-> Query([id |-> json.id, sql |-> json.sql, name |-> json.name,
                       createdAt |-> IF Not(json.createdAt) THEN Undefined
                                     ELSE NewDate(json.createdAt),
                       updatedAt |-> IF Not(json.updatedAt) THEN Undefined
                                     ELSE NewDate(json.updatedAt),
                       status |-> json.status,
                       lastError |-> Coalesce(json.lastError, Null)], t)]

\* validate(): the Error's message, empty when the Query is valid
validate(q) ==
    LET idError == IF Not(q.id) THEN <<"id is required">> ELSE <<>>
        sqlError == IF Not(q.sql) \/ ~IsString(q.sql)
                    THEN <<"sql is required">> ELSE <<>>
        joined == IF idError # <<>> /\ sqlError # <<>>
                  THEN idError \o <<", ">> \o sqlError
                  ELSE idError \o sqlError
    IN  IF joined = <<>> THEN <<>>
        ELSE <<"Query validation failed: ">> \o joined

\* toJSON() with updatedAt written from createdAt
QueryToJSON_OneTimestamp(q) ==
    [isObject |-> TRUE, id |-> q.id, sql |-> q.sql, name |-> q.name,
     createdAt |-> toISOString(q.createdAt),
     updatedAt |-> toISOString(q.createdAt),
     status |-> q.status,
     lastError |-> Coalesce(q.lastError, Null)]

\* toJSON()
QueryToJSON(q) ==
    [isObject |-> TRUE, id |-> q.id, sql |-> q.sql, name |-> q.name,
     createdAt |-> toISOString(q.createdAt),
     updatedAt |-> toISOString(q.updatedAt),
     status |-> q.status,
     lastError |-> Coalesce(q.lastError, Null)]

\* a key an `overrides` object does not have
Absent == <<"absent">>
NoOverrides ==
    [id |-> Absent, sql |-> Absent, name |-> Absent, createdAt |-> Absent,
     updatedAt |-> Absent, status |-> Absent, lastError |-> Absent]

\* { ...json, ...overrides }: every key of overrides wins, also one whose
\* value is undefined
Spread(json, overrides) ==
    [f \in DOMAIN json |->
        IF f = "isObject" THEN json[f]
        ELSE IF overrides[f] = Absent THEN json[f] ELSE overrides[f]]

\* clone(overrides): what Query.fromJSON makes of the merged payload
clone(q, overrides, t) == QueryFromJSON(Spread(QueryToJSON(q), overrides), t)

(***************************************************************************)
(* Query execution (services/queryService.ts)                              *)
(***************************************************************************)
\* the messages an upstream failure may carry; <<>> is the empty message
UpstreamMessages ==
    { <<"Invalid query syntax">>, <<"User not authenticated">>, <<>> }

\* what the external API does during one delegated call: how the promise
\* of initializeBigQueryAPI() settles ("gapi-undefined": it threw because
\* `gapi` was undefined when it was called; "load-rejected": gapi.load or
\* gapi.client.load failed; "ok": the client was there or was loaded) and how
\* jobs.query settles
BigQueryEnv(init, initMessage, call, callMessage) ==
    [init |-> init, initMessage |-> initMessage, call |-> call,
     callMessage |-> callMessage]

BigQueryEnvs ==
    { BigQueryEnv("gapi-undefined", <<>>, "none", <<>>) }
    \cup { BigQueryEnv("load-rejected", m, "none", <<>>) :
             m \in UpstreamMessages }
    \cup { BigQueryEnv("ok", <<>>, c, <<>>) :
             c \in {"result", "no-result", "non-object"} }
    \cup { BigQueryEnv("ok", <<>>, c, m) :
             c \in {"api-error", "error"}, m \in UpstreamMessages }

NoResult == [jobId |-> <<>>, rows |-> <<>>, schema |-> <<>>]

\* the job id, schema and rows of the sample response, as
\* convertBigQuerySchema and convertBigQueryRows return them
ApiResult ==
    [jobId |-> <<"job_1">>,
     rows |-> <<[id |-> Num(1)]>>,
     schema |-> <<[name |-> "id", type |-> "INTEGER"]>>]

\* initializeBigQueryAPI(): whether its promise is rejected and the error's
\* message
initializeBigQueryAPI(env) ==
    IF env.init = "gapi-undefined"
    THEN [threw |-> TRUE,
          message |-> <<"Google API client not loaded. Include https://apis.google.com/js/api.js">>]
    ELSE IF env.init = "load-rejected"
    THEN [threw |-> TRUE, message |-> env.initMessage]
    ELSE [threw |-> FALSE, message |-> <<>>]

\* executeBigQueryQuery(sql, projectId, session): the result it resolves
\* with or the message of the error it rejects with; a failed
\* initializeBigQueryAPI() is passed on as it is, a failed jobs.query is
\* wrapped
executeBigQueryQuery(env) ==
    LET init == initializeBigQueryAPI(env)
        errorMessage ==
            CASE env.call = "no-result" -> <<"No result returned from BigQuery">>
              [] env.call = "api-error" ->
                     IF env.callMessage = <<>> THEN <<"Unknown BigQuery error">>
                     ELSE env.callMessage
              [] env.call = "error" -> env.callMessage
              [] OTHER -> <<"Unknown BigQuery error">>
    IN  IF init.threw
        THEN [threw |-> TRUE, message |-> init.message, result |-> NoResult]
        ELSE IF env.call = "result"
        THEN [threw |-> FALSE, message |-> <<>>, result |-> ApiResult]
        ELSE [threw |-> TRUE,
              message |-> <<"BigQuery execution failed: ">> \o errorMessage,
              result |-> NoResult]

\* fakeSchemaFromRows(rows): the keys of the first row and their typeof
fakeSchemaFromRows(rows) ==
    IF rows = <<>> THEN <<>>
    ELSE IF DOMAIN rows[1] = {"n"}
    THEN <<[name |-> "n", type |-> "number"]>>
    ELSE <<[name |-> "raw_sql", type |-> "string"],
           [name |-> "ranAt", type |-> "string"]>>

\* `local-${q.id}`
LocalJobId(id) == <<"local-", id[2]>>

\* the mock echoing the SQL text as it was given
mockResult_NoTrim(q, t) ==
    LET sql == q.sql[2]
        numbers == <<[n |-> Num(1)], [n |-> Num(2)], [n |-> Num(3)]>>
        echo == <<[raw_sql |-> sql, ranAt |-> toISOString(DateOf(t))]>>
    IN  IF ~isSelect(sql)
        THEN [jobId |-> LocalJobId(q.id), rows |-> <<>>, schema |-> <<>>]
        ELSE IF fromNumbers(sql)
        THEN [jobId |-> LocalJobId(q.id), rows |-> numbers,
              schema |-> fakeSchemaFromRows(numbers)]
        ELSE [jobId |-> LocalJobId(q.id), rows |-> echo,
              schema |-> fakeSchemaFromRows(echo)]

\* the mock branch of executeQuery: what it resolves with for Query q at time t
mockResult(q, t) ==
    LET sql == q.sql[2]
        numbers == <<[n |-> Num(1)], [n |-> Num(2)], [n |-> Num(3)]>>
        echo == <<[raw_sql |-> Trim(sql), ranAt |-> toISOString(DateOf(t))]>>
    IN  IF ~isSelect(sql)
        THEN [jobId |-> LocalJobId(q.id), rows |-> <<>>, schema |-> <<>>]
        ELSE IF fromNumbers(sql)
        THEN [jobId |-> LocalJobId(q.id), rows |-> numbers,
              schema |-> fakeSchemaFromRows(numbers)]
        ELSE [jobId |-> LocalJobId(q.id), rows |-> echo,
              schema |-> fakeSchemaFromRows(echo)]

\* setTimeout(res, 100)
MockDelay == 100

\* the record of one executeQuery call. `calls` lists what the call has
\* invoked so far, so its last entry is what a pending call waits for
RunRecord(pc, isQuery, session, delegated, result, message) ==
    [pc |-> pc, isQuery |-> isQuery, session |-> session,
     delegated |-> delegated,
     calls |-> IF pc # "awaiting" THEN <<>>
               ELSE IF delegated
               THEN <<"executeBigQueryQuery", "initializeBigQueryAPI">>
               ELSE <<"setTimeout">>,
     result |-> result, message |-> message, seq |-> 1 - run.seq]

\* q.lastError = message ? String(message) : String(err), for an Error
ErrorText(message) ==
    IF message = <<>> THEN Str("Error") ELSE StrOf(message)

\* executeQuery delegating whenever a session is supplied
executeQuery_TrustsAnySession(input, isQuery, session) ==
    LET norm == IF isQuery
                THEN [threw |-> FALSE, message |-> <<>>, q |-> qobj]
                ELSE QueryFromJSON(input, now)
        invalid == IF norm.threw THEN norm.message ELSE validate(norm.q)
        isAuthed == IF session.given THEN isAuthenticated(session.s, now)
                    ELSE FALSE
        delegated == session.given
    IN  IF invalid # <<>>
        THEN /\ qobj' = qobj
             /\ run' = RunRecord("rejected", isQuery, session, FALSE,
                                 NoResult, invalid)
        ELSE /\ qobj' = [norm.q EXCEPT !.status = Str("running"),
                                       !.updatedAt = DateOf(now)]
             /\ run' = RunRecord("awaiting", isQuery, session, delegated,
                                 NoResult, <<>>)

\* executeQuery marking the Query as running before it validates it
executeQuery_RunningBeforeValidate(input, isQuery, session) ==
    LET norm == IF isQuery
                THEN [threw |-> FALSE, message |-> <<>>, q |-> qobj]
                ELSE QueryFromJSON(input, now)
        invalid == IF norm.threw THEN norm.message ELSE validate(norm.q)
        isAuthed == IF session.given THEN isAuthenticated(session.s, now)
                    ELSE FALSE
        delegated == isAuthed /\ session.given
    IN  IF invalid # <<>>
        THEN /\ qobj' = IF norm.threw THEN qobj
                      ELSE [norm.q EXCEPT !.status = Str("running")]
             /\ run' = RunRecord("rejected", isQuery, session, FALSE,
                                 NoResult, invalid)
        ELSE /\ qobj' = [norm.q EXCEPT !.status = Str("running"),
                                       !.updatedAt = DateOf(now)]
             /\ run' = RunRecord("awaiting", isQuery, session, delegated,
                                 NoResult, <<>>)

\* executeQuery(query, session) up to its first await: the one on the
\* mock's timer, or, on the delegated path, the one on initializeBigQueryAPI()
\* inside executeBigQueryQuery, whose promise is rejected already when
\* `gapi` is undefined. isQuery says whether the input is the Query
\* instance qobj or a raw payload
executeQuery(input, isQuery, session) ==
    LET norm == IF isQuery
                THEN [threw |-> FALSE, message |-> <<>>, q |-> qobj]
                ELSE QueryFromJSON(input, now)
        invalid == IF norm.threw THEN norm.message ELSE validate(norm.q)
        isAuthed == IF session.given THEN isAuthenticated(session.s, now)
                    ELSE FALSE
        delegated == isAuthed /\ session.given
    IN  IF invalid # <<>>
        THEN /\ qobj' = qobj
             /\ run' = RunRecord("rejected", isQuery, session, FALSE,
                                 NoResult, invalid)
        ELSE /\ qobj' = [norm.q EXCEPT !.status = Str("running"),
                                       !.updatedAt = DateOf(now)]
             /\ run' = RunRecord("awaiting", isQuery, session, delegated,
                                 NoResult, <<>>)

\* the call waits for the promise of initializeBigQueryAPI() / of jobs.query
AwaitsInit(r) ==
    r.pc = "awaiting" /\ r.calls[Len(r.calls)] = "initializeBigQueryAPI"
AwaitsJob(r) ==
    r.pc = "awaiting" /\ r.calls[Len(r.calls)] = "jobs.query"

\* the environments in which the promise the call waits for can settle:
\* jobs.query was called because the initialisation succeeded
EnvFits(env) == AwaitsJob(run) => env.init = "ok"

\* how long the promise the call waits for takes to settle: the mock's
\* timer takes MockDelay; the promise of an initializeBigQueryAPI() that
\* found `gapi` undefined is rejected already and takes no time; the load
\* of the client and jobs.query take no measurable time or as long as the
\* timer, and a delegated call no longer than the timer in all
Latencies(env) ==
    IF ~run.delegated THEN {MockDelay}
    ELSE IF AwaitsInit(run) /\ env.init = "gapi-undefined" THEN {0}
    ELSE {0} \cup {d \in {MockDelay} : qobj.updatedAt = DateOf(now)}

\* executeQuery whose catch block leaves updatedAt alone
executeQuerySettles_StaleUpdatedAt(env) ==
    IF run.delegated
    THEN LET r == executeBigQueryQuery(env)
         IN  IF AwaitsInit(run) /\ ~initializeBigQueryAPI(env).threw
             THEN /\ qobj' = qobj
                  /\ run' = [run EXCEPT !.calls = @ \o <<"jobs.query">>]
             ELSE IF r.threw
             THEN /\ qobj' = [qobj EXCEPT
                                 !.status = Str("failed"),
                                 !.lastError = ErrorText(r.message),
                                 !.updatedAt = qobj.updatedAt]
                  /\ run' = [run EXCEPT !.pc = "rejected",
                                        !.message = r.message]
             ELSE /\ qobj' = [qobj EXCEPT !.status = Str("completed"),
                                          !.updatedAt = DateOf(now')]
                  /\ run' = [run EXCEPT !.pc = "resolved",
                                        !.result = r.result]
    ELSE /\ qobj' = [qobj EXCEPT !.status = Str("completed"),
                                 !.updatedAt = DateOf(now')]
         /\ run' = [run EXCEPT !.pc = "resolved",
                               !.result = mockResult(qobj, now')]

\* the promise a pending executeQuery call waits for settles, and the call
\* runs on to its next await or to its end. On the delegated path that is
\* first the promise of initializeBigQueryAPI(): when it resolves,
\* executeBigQueryQuery calls jobs.query and the call waits again; when it
\* is rejected, the rejection reaches the catch block of executeQuery as it
\* is. Then it is the promise of jobs.query. On the other path it is the
\* mock's timer.
executeQuerySettles(env) ==
    IF run.delegated
    THEN LET r == executeBigQueryQuery(env)
         IN  IF AwaitsInit(run) /\ ~initializeBigQueryAPI(env).threw
             THEN /\ qobj' = qobj
                  /\ run' = [run EXCEPT !.calls = @ \o <<"jobs.query">>]
             ELSE IF r.threw
             THEN /\ qobj' = [qobj EXCEPT
                                 !.status = Str("failed"),
                                 !.lastError = ErrorText(r.message),
                                 !.updatedAt = DateOf(now')]
                  /\ run' = [run EXCEPT !.pc = "rejected",
                                        !.message = r.message]
             ELSE /\ qobj' = [qobj EXCEPT !.status = Str("completed"),
                                          !.updatedAt = DateOf(now')]
                  /\ run' = [run EXCEPT !.pc = "resolved",
                                        !.result = r.result]
    ELSE /\ qobj' = [qobj EXCEPT !.status = Str("completed"),
                                 !.updatedAt = DateOf(now')]
         /\ run' = [run EXCEPT !.pc = "resolved",
                               !.result = mockResult(qobj, now')]

\* the Query instances callers hold
QueryIds == {Str("t1"), Str("")}
QuerySqls == {RawText(t) : t \in SqlTexts} \cup {RawText(<<>>)}

\* the raw payloads callers pass
RawPayloads ==
    { NotAnObject,
      QueryPayload(Num(5), RawText(<<"S", "E", "L", "E", "C", "T", " ", "1">>)),
      QueryPayload(Str("t2"), Undefined),
      QueryPayload(Str(""), RawText(<<"S", "E", "L", "E", "C", "T", " ", "1">>)),
      QueryPayload(Str("t2"), RawText(<<>>)),
      QueryPayload(Str("t2"), RawText(<<"S", "E", "L", "E", "C", "T", " ", "1">>)),
      QueryPayload(Str("t2"), RawText(<<"D", "R", "O", "P", " ", "t">>)) }

\* the `session` argument: left out, or a UserSession
SessionArgs ==
    { [given |-> FALSE, s |-> UserSession(NoPayload)] } \cup
    { [given |-> TRUE, s |-> UserSession(p)] :
        p \in { NoPayload,
                [NoPayload EXCEPT !.accessToken = Str("")],
                [NoPayload EXCEPT !.accessToken = Str("abc")],
                [NoPayload EXCEPT !.accessToken = Str("abc"),
                                  !.expiresAt = IsoOf(MockDelay - 1)] } }

\* a caller constructs a Query
NewQuery ==
    /\ run.pc # "awaiting"
    /\ \E id \in QueryIds, sql \in QuerySqls :
           qobj' = Query([QueryPayload(id, sql) EXCEPT !.isObject = TRUE], now)
    /\ run' = [run EXCEPT !.pc = "idle", !.seq = 1 - @]
    /\ UNCHANGED now
    /\ UNCHANGED notQuery

ExecuteQuery ==
    /\ run.pc # "awaiting"
    /\ now < MaxRuns * MockDelay
    /\ \E session \in SessionArgs : executeQuery(qobj, TRUE, session)
    /\ UNCHANGED now
    /\ UNCHANGED notQuery

ExecutePayload ==
    /\ run.pc # "awaiting"
    /\ now < MaxRuns * MockDelay
    /\ \E payload \in RawPayloads, session \in SessionArgs :
           executeQuery(payload, FALSE, session)
    /\ UNCHANGED now
    /\ UNCHANGED notQuery

\* one turn of a pending call: what it waits for settles
ExecuteQuerySettles ==
    /\ run.pc = "awaiting"
    /\ \E env \in BigQueryEnvs :
           /\ EnvFits(env)
           /\ \E latency \in Latencies(env) : now' = now + latency
           /\ executeQuerySettles(env)
    /\ UNCHANGED notQuery

QueryInit ==
    /\ qobj = Query(QueryPayload(Str("t1"),
                                 RawText(<<"S", "E", "L", "E", "C", "T", " ", "1">>)),
                    0)
    /\ run = [pc |-> "idle", isQuery |-> TRUE,
              session |-> [given |-> FALSE, s |-> UserSession(NoPayload)],
              delegated |-> FALSE, calls |-> <<>>,
              result |-> NoResult, message |-> <<>>, seq |-> 0]

QueryIdle == QueryInit

(***************************************************************************)
(* POST /api/query/execute (api/query.ts)                                  *)
(***************************************************************************)
DigitChars == <<"0", "1", "2", "3", "4", "5", "6", "7", "8", "9">>

\* Number.prototype.toString(36), digit by digit
RECURSIVE Base36(_)
Base36(n) ==
    LET digit(d) == IF d < 10 THEN DigitChars[d + 1] ELSE LowerCase[d - 9]
    IN  IF n < 36 THEN <<digit(n)>>
        ELSE Base36(n \div 36) \o <<digit(n % 36)>>

\* `local-${Date.now().toString(36)}`
DefaultId(t) == RawText(<<"l", "o", "c", "a", "l", "-">> \o Base36(t))

\* an ExecuteRequest; seq counts the requests posted so far, session is the
\* local variable `session` of the call (a reference, NoRef while it is
\* undefined)
ExecuteRequest(q, authToken, id) ==
    [query |-> q, authToken |-> authToken, id |-> id, name |-> Undefined,
     seq |-> 0, session |-> NoRef]

\* the payloads callers post; a missing payload reads as {}
ExecuteRequests ==
    { ExecuteRequest(q, tok, Undefined) :
        q \in { Undefined, Num(5), RawText(<<>>), RawText(<<" ", "\t">>),
                RawText(<<"S", "E", "L", "E", "C", "T", " ", "1">>) },
        tok \in { Undefined, Null, Str(""), Str("invalid-token"),
                  Str("valid-token") } }
    \cup
    { ExecuteRequest(RawText(<<"S", "E", "L", "E", "C", "T", " ", "1">>),
                     tok, id) :
        tok \in { Undefined, Str("valid-token") },
        id \in { Str("e1"), Str(""), Num(5) } }

\* !body.query || typeof body.query !== 'string' || !body.query.trim()
BlankQuery(q) == Not(q) \/ ~IsString(q) \/ Trim(q[2]) = <<>>

\* { statusCode, body }; stage tells which part of executeEndpoint answered
Response(stage, statusCode, results, schema, status, error, jobId) ==
    [stage |-> stage, statusCode |-> statusCode, results |-> results,
     schema |-> schema, status |-> status, error |-> error, jobId |-> jobId]

ErrorResponse(stage, statusCode, message) ==
    Response(stage, statusCode, <<>>, <<>>, "error", StrOf(message), <<>>)

\* the promise of executeEndpoint has not resolved yet: the call waits at
\* `await authService.signInWithToken(...)`, or at `await executeQuery(...)`
SignedInResponse == Response("signedIn", 0, <<>>, <<>>, "none", Null, <<>>)
PendingResponse == Response("pending", 0, <<>>, <<>>, "none", Null, <<>>)

\* the catch block of executeEndpoint, for an error with the given message
catchResponse(message) ==
    IF message = <<"User not authenticated">>
    THEN ErrorResponse("adapter", 401, <<"Authentication failed">>)
    ELSE ErrorResponse("adapter", 500,
                       IF message = <<>> THEN <<"Query execution failed">>
                       ELSE message)

\* executeEndpoint looking at the token before it looks at the query
executeEndpoint_TokenFirst(payload, setItemThrows) ==
    LET qpayload ==
            [QueryPayload(Coalesce(payload.id, DefaultId(now)), payload.query)
                EXCEPT !.name = payload.name]
        started == [payload EXCEPT !.seq = request.seq + 1]
    IN  IF payload.authToken = Str("invalid-token")
        THEN /\ request' = started
             /\ response' = ErrorResponse("token", 401,
                                          <<"Authentication failed">>)
             /\ UNCHANGED <<storeVars, queryVars>>
        ELSE IF BlankQuery(payload.query)
        THEN /\ request' = started
             /\ response' = ErrorResponse("input", 400,
                                          <<"Query is required">>)
             /\ UNCHANGED <<storeVars, queryVars>>
        ELSE IF Falsy(payload.authToken)
        THEN /\ request' = started
             /\ UNCHANGED storeVars
             /\ executeQuery(qpayload, FALSE,
                             [given |-> FALSE, s |-> UserSession(NoPayload)])
             /\ response' = PendingResponse
        ELSE /\ signInWithToken(
                    SignInPayload(Undefined, Undefined, payload.authToken,
                                  Undefined, Undefined),
                    setItemThrows)
             /\ request' = [started EXCEPT !.session = currentSession']
             /\ response' = SignedInResponse
             /\ UNCHANGED queryVars

\* executeEndpoint(payload) up to its first await: the one on
\* signInWithToken when a token is given, else `await executeQuery(...)`,
\* where the call waits also when executeQuery has rejected at once
executeEndpoint(payload, setItemThrows) ==
    LET qpayload ==
            [QueryPayload(Coalesce(payload.id, DefaultId(now)), payload.query)
                EXCEPT !.name = payload.name]
        started == [payload EXCEPT !.seq = request.seq + 1]
    IN  IF BlankQuery(payload.query)
        THEN /\ request' = started
             /\ response' = ErrorResponse("input", 400,
                                          <<"Query is required">>)
             /\ UNCHANGED <<storeVars, queryVars>>
        ELSE IF payload.authToken = Str("invalid-token")
        THEN /\ request' = started
             /\ response' = ErrorResponse("token", 401,
                                          <<"Authentication failed">>)
             /\ UNCHANGED <<storeVars, queryVars>>
        ELSE IF Falsy(payload.authToken)
        THEN /\ request' = started
             /\ UNCHANGED storeVars
             /\ executeQuery(qpayload, FALSE,
                             [given |-> FALSE, s |-> UserSession(NoPayload)])
             /\ response' = PendingResponse
        ELSE /\ signInWithToken(
                    SignInPayload(Undefined, Undefined, payload.authToken,
                                  Undefined, Undefined),
                    setItemThrows)
             /\ request' = [started EXCEPT !.session = currentSession']
             /\ response' = SignedInResponse
             /\ UNCHANGED queryVars

\* executeEndpoint from the await on signInWithToken to
\* `await executeQuery(...)`: the Query payload is built and executeQuery is
\* called with the session object the sign-in returned, as that object is
\* by now
executeEndpointResumes ==
    LET qpayload ==
            [QueryPayload(Coalesce(request.id, DefaultId(now)), request.query)
                EXCEPT !.name = request.name]
    IN  /\ executeQuery(qpayload, FALSE,
                        [given |-> TRUE, s |-> heap[request.session]])
        /\ response' = PendingResponse
        /\ UNCHANGED request
        /\ UNCHANGED storeVars

\* one turn of executeEndpoint waiting at `await executeQuery(...)`: what
\* executeQuery waits for settles, and when that ends executeQuery the
\* endpoint builds its response in the same turn; an executeQuery that
\* rejected when it was called is answered in the turn after the call
executeEndpointSettles(env) ==
    /\ IF run.pc = "awaiting"
       THEN executeQuerySettles(env)
       ELSE UNCHANGED queryVars
    /\ response' =
          CASE run'.pc = "awaiting" -> PendingResponse
            [] run'.pc = "resolved" ->
                 Response("adapter", 200, run'.result.rows,
                          run'.result.schema, "success", Null,
                          run'.result.jobId)
            [] OTHER -> catchResponse(run'.message)
    /\ UNCHANGED request
    /\ UNCHANGED storeVars

\* one request at a time, MaxRuns requests in all, posted while
\* localStorage works
ExecuteEndpoint ==
    /\ response.stage \notin {"signedIn", "pending"}
    /\ request.seq < MaxRuns
    /\ \E payload \in ExecuteRequests : executeEndpoint(payload, FALSE)
    /\ UNCHANGED now
    /\ UNCHANGED notEndpoint

\* the awaited signInWithToken hands control back to executeEndpoint
ExecuteEndpointResumes ==
    /\ response.stage = "signedIn"
    /\ executeEndpointResumes
    /\ UNCHANGED now
    /\ UNCHANGED notEndpoint

\* the clock moves on while executeEndpoint waits for signInWithToken
ClockMovesInGap ==
    /\ response.stage = "signedIn"
    /\ now % MockDelay < MaxExtraMs
    /\ now' = now + 1
    /\ UNCHANGED <<storeVars, queryVars, endpointVars>>
    /\ UNCHANGED notEndpoint

\* signOut() is called, before, during or after a request, while
\* localStorage works
SignOutAround ==
    /\ signOut(FALSE)
    /\ UNCHANGED <<now, queryVars, endpointVars>>
    /\ UNCHANGED notEndpoint

\* one turn of a pending request
ExecuteEndpointSettles ==
    /\ response.stage = "pending"
    /\ \E env \in BigQueryEnvs :
           /\ EnvFits(env)
           /\ \E latency \in IF run.pc = "awaiting" THEN Latencies(env)
                              ELSE {0} :
                  now' = now + latency
           /\ executeEndpointSettles(env)
    /\ UNCHANGED notEndpoint

EndpointInit ==
    /\ request = ExecuteRequest(Undefined, Undefined, Undefined)
    /\ response = Response("none", 0, <<>>, <<>>, "none", Null, <<>>)

EndpointIdle == EndpointInit

(***************************************************************************)
(* The Query value object on its own (models/Query.ts)                     *)
(***************************************************************************)
QueryStatuses == {Str("draft"), Str("running"), Str("completed"), Str("failed")}
SelectOne == RawText(<<"S", "E", "L", "E", "C", "T", " ", "1">>)

\* the payloads handed to the constructor; TypeScript's types are gone at
\* run time, so a payload read from JSON may carry any status and any id
ConstructorPayloads ==
    { [QueryPayload(id, SelectOne) EXCEPT !.name = name, !.createdAt = c,
                                          !.updatedAt = u, !.status = st,
                                          !.lastError = e] :
        id \in {Str("t1"), Num(5)},
        name \in {Undefined, Str("daily")},
        c \in {Undefined, DateOf(5)},
        u \in {Undefined, DateOf(7)},
        st \in QueryStatuses \cup {Undefined, Str("archived")},
        e \in {Undefined, Null, Str("boom")} }

\* the payloads handed to Query.fromJSON
JsonPayloads ==
    { NotAnObject } \cup
    { [QueryPayload(id, sql) EXCEPT !.createdAt = c, !.status = st,
                                    !.lastError = e] :
        id \in {Str("t2"), Num(5)},
        sql \in {SelectOne, Undefined},
        c \in {Undefined, IsoOf(5)},
        st \in {Undefined, Str("completed"), Str("archived")},
        e \in {Undefined, Null, Str("boom")} }

\* the overrides handed to clone
OverrideSets ==
    { NoOverrides,
      [NoOverrides EXCEPT !.status = Str("completed")],
      [NoOverrides EXCEPT !.status = Str("archived")],
      [NoOverrides EXCEPT !.sql = RawText(<<"D", "R", "O", "P", " ", "t">>)],
      [NoOverrides EXCEPT !.name = Str("copy")],
      [NoOverrides EXCEPT !.lastError = Undefined],
      [NoOverrides EXCEPT !.updatedAt = IsoOf(9)],
      [NoOverrides EXCEPT !.id = Num(5)] }

QueryOp(name, threw, message, overrides) ==
    [name |-> name, threw |-> threw, message |-> message,
     overrides |-> overrides, seq |-> 1 - qop.seq]

\* q = new Query(payload)
Construct ==
    /\ \E payload \in ConstructorPayloads : qobj' = Query(payload, now)
    /\ qcopy' = qobj'
    /\ qop' = QueryOp("new", FALSE, <<>>, NoOverrides)
    /\ UNCHANGED notModel

\* q = Query.fromJSON(json)
FromJSON ==
    /\ \E json \in JsonPayloads :
          LET r == QueryFromJSON(json, now)
          IN  /\ qobj' = IF r.threw THEN qobj ELSE r.q
              /\ qcopy' = IF r.threw THEN qcopy ELSE r.q
              /\ qop' = QueryOp("fromJSON", r.threw, r.message, NoOverrides)
    /\ UNCHANGED notModel

\* copy = Query.fromJSON(q.toJSON())
RoundTrip ==
    /\ LET r == QueryFromJSON(QueryToJSON(qobj), now)
       IN  /\ qcopy' = IF r.threw THEN qcopy ELSE r.q
           /\ qop' = QueryOp("roundTrip", r.threw, r.message, NoOverrides)
    /\ UNCHANGED qobj
    /\ UNCHANGED notModel

\* copy = q.clone(overrides)
Clone ==
    /\ \E overrides \in OverrideSets :
          LET r == clone(qobj, overrides, now)
          IN  /\ qcopy' = IF r.threw THEN qcopy ELSE r.q
              /\ qop' = QueryOp("clone", r.threw, r.message, overrides)
    /\ UNCHANGED qobj
    /\ UNCHANGED notModel

ModelIdle ==
    /\ qcopy = Query(QueryPayload(Str("t1"), SelectOne), 0)
    /\ qop = [name |-> "none", threw |-> FALSE, message |-> <<>>,
              overrides |-> NoOverrides, seq |-> 0]

ModelInit ==
    /\ qobj \in {Query(payload, 0) : payload \in ConstructorPayloads}
    /\ qcopy = qobj
    /\ qop = [name |-> "new", threw |-> FALSE, message |-> <<>>,
              overrides |-> NoOverrides, seq |-> 0]
    /\ run = [pc |-> "idle", isQuery |-> TRUE,
              session |-> [given |-> FALSE, s |-> UserSession(NoPayload)],
              delegated |-> FALSE, calls |-> <<>>,
              result |-> NoResult, message |-> <<>>, seq |-> 0]

(***************************************************************************)
(* ThemeToggle (components/ThemeToggle.vue) under its parent's v-model     *)
(***************************************************************************)
\* what localStorage may hold under 'theme' when a page starts
StoredThemes == {Null, Str("dark"), Str("light"), Str("auto")}

\* a JavaScript boolean
Bool(b) == <<"boolean", b>>

\* the values settings.darkMode takes: a boolean, or undefined once the
\* component has emitted undefined
DarkModes == {Bool(TRUE), Bool(FALSE), Undefined}

\* isDark = computed(() => props.modelValue); the prop is a Boolean with
\* default false, which an undefined v-model value falls back to
isDark == IF darkMode = Undefined THEN FALSE ELSE darkMode[2]

\* newValue ? 'dark' : 'light'
themeText(dark) == IF dark THEN Str("dark") ELSE Str("light")

\* what a mount meets: window.matchMedia && matchMedia(...).matches (left
\* at false when matchMedia throws, undefined when window.matchMedia is
\* missing), and whether the store's setItem and getItem throw
ThemeEnvs ==
    [prefersDark : {Bool(TRUE), Bool(FALSE), Undefined},
     setItemThrows : BOOLEAN, getItemThrows : BOOLEAN]

ThemeCall(name, modelValue, storedBefore, env, emitted) ==
    [name |-> name, modelValue |-> modelValue, storedBefore |-> storedBefore,
     prefersDark |-> env.prefersDark, setThrew |-> env.setItemThrows,
     getThrew |-> env.getItemThrows, emitted |-> emitted,
     seq |-> 1 - themeCall.seq]

NoThemeEnv ==
    [prefersDark |-> Bool(FALSE), setItemThrows |-> FALSE,
     getItemThrows |-> FALSE]

\* the store after the watcher's callback ran for newValue
watchStores(newValue, setItemThrows) ==
    IF setItemThrows THEN themeStorage ELSE themeText(newValue)

\* onMounted, after setup() ran the watcher once (immediate: true): the
\* values it emits as update:modelValue
onMounted(env) ==
    LET storedTheme == IF env.getItemThrows THEN Null
                       ELSE watchStores(isDark, env.setItemThrows)
        shouldBeDark == IF ~Falsy(storedTheme)
                        THEN Bool(storedTheme = Str("dark"))
                        ELSE env.prefersDark
    IN  IF shouldBeDark # Bool(isDark) THEN <<shouldBeDark>> ELSE <<>>

\* the component is mounted: setup() runs the watcher at once, onMounted
\* follows, and the parent's v-model takes what was emitted
Mount ==
    /\ ~mounted
    /\ \E env \in ThemeEnvs :
          LET emitted == onMounted(env)
          IN  /\ documentDark' = isDark
              /\ themeStorage' = watchStores(isDark, env.setItemThrows)
              /\ darkMode' = IF emitted = <<>> THEN darkMode ELSE emitted[1]
              /\ watchPending' = (emitted # <<>>)
              /\ themeCall' = ThemeCall("mount", isDark, themeStorage, env,
                                        emitted)
    /\ mounted' = TRUE
    /\ UNCHANGED notTheme

\* toggleTheme: a click on the button
ToggleTheme ==
    /\ mounted /\ ~watchPending
    /\ darkMode' = Bool(~isDark)
    /\ watchPending' = TRUE
    /\ themeCall' = ThemeCall("click", isDark, themeStorage, NoThemeEnv,
                              <<Bool(~isDark)>>)
    /\ UNCHANGED <<themeStorage, documentDark, mounted>>
    /\ UNCHANGED notTheme

\* PanelManager's updateSettings(newSettings): Object.assign writes
\* settings.darkMode; the component emits nothing
UpdateSettings ==
    /\ mounted /\ ~watchPending
    /\ \E dark \in DarkModes : darkMode' = dark
    /\ watchPending' = TRUE
    /\ themeCall' = ThemeCall("updateSettings", isDark, themeStorage,
                              NoThemeEnv, <<>>)
    /\ UNCHANGED <<themeStorage, documentDark, mounted>>
    /\ UNCHANGED notTheme

\* the queued watcher runs: its callback is called when isDark changed
WatcherRuns ==
    /\ mounted /\ watchPending
    /\ \E setItemThrows \in BOOLEAN :
          IF isDark # documentDark
          THEN /\ documentDark' = isDark
               /\ themeStorage' = watchStores(isDark, setItemThrows)
          ELSE UNCHANGED <<documentDark, themeStorage>>
    /\ watchPending' = FALSE
    /\ UNCHANGED <<darkMode, mounted, themeCall>>
    /\ UNCHANGED notTheme

\* the page is left; the next page starts with the parent's initial value
\* and what the store holds
Reload ==
    /\ mounted /\ ~watchPending
    /\ mounted' = FALSE
    /\ \E dark \in BOOLEAN : darkMode' = Bool(dark)
    /\ documentDark' = FALSE
    /\ themeCall' = ThemeCall("reload", isDark, themeStorage, NoThemeEnv,
                              <<>>)
    /\ UNCHANGED <<themeStorage, watchPending>>
    /\ UNCHANGED notTheme

ThemeIdle ==
    /\ darkMode = Bool(FALSE) /\ themeStorage = Null /\ documentDark = FALSE
    /\ mounted = FALSE /\ watchPending = FALSE
    /\ themeCall = [name |-> "none", modelValue |-> FALSE,
                    storedBefore |-> Null, prefersDark |-> Bool(FALSE),
                    setThrew |-> FALSE, getThrew |-> FALSE, emitted |-> <<>>,
                    seq |-> 0]

ThemeInit ==
    /\ darkMode \in {Bool(TRUE), Bool(FALSE)}
    /\ themeStorage \in StoredThemes
    /\ documentDark = FALSE /\ mounted = FALSE /\ watchPending = FALSE
    /\ themeCall = [name |-> "none", modelValue |-> FALSE,
                    storedBefore |-> Null, prefersDark |-> Bool(FALSE),
                    setThrew |-> FALSE, getThrew |-> FALSE, emitted |-> <<>>,
                    seq |-> 0]

(***************************************************************************)
(* Specifications                                                          *)
(***************************************************************************)
PanelIdle ==
    /\ showResults = FALSE /\ showSchema = FALSE /\ showSettings = FALSE
    /\ showKeyboardHelp = FALSE /\ query = <<>> /\ queryResults = <<>>
    /\ isExecutingQuery = FALSE /\ inFlight = 0 /\ defaultPrevented = FALSE
    /\ lastEvent = Other("none") /\ prev = Snapshot
    /\ monacoLoaded = FALSE /\ editor = "import"

StoreIdle ==
    /\ heap = <<UserSession(NoPayload)>>
    /\ currentSession = 1
    /\ storage = Null
    /\ handedOut = {}
    /\ handedSince = {}
    /\ lastCall = [name |-> "none", payload |-> NoPayload, storeThrew |-> FALSE,
                   threw |-> FALSE, ret |-> NoRef, seq |-> 0,
                   beforeName |-> "none"]

ProbeIdle ==
    /\ probe = UserSession(NoPayload)
    /\ probeResult = [evaluated |-> FALSE, value |-> FALSE, at |-> 0,
                      seq |-> 0]

\* the panel manager
Init ==
    /\ PanelInit /\ StoreIdle /\ ProbeIdle /\ GoogleIdle /\ QueryIdle
    /\ EndpointIdle /\ ModelIdle /\ ThemeIdle
    /\ now = 0

Next ==
    \/ Keydown
    \/ ClickCloseResults
    \/ ClickCloseSchema
    \/ ClickCloseSettings
    \/ ClickCloseHelp
    \/ EditorInput
    \/ MonacoLoads
    \/ EditorMounts
    \/ EditorExecute
    \/ Settle

Spec == Init /\ [][Next]_vars

\* the timer behind every suspended handleExecuteQuery call fires
FairSpec == Spec /\ WF_vars(Settle)

\* the session store
SessionInit ==
    /\ StoreInit /\ PanelIdle /\ ProbeIdle /\ GoogleIdle /\ QueryIdle
    /\ EndpointIdle /\ ModelIdle /\ ThemeIdle
    /\ now = 0

SessionNext ==
    \/ SignInWithToken
    \/ SignOut
    \/ GetSession
    \/ HolderClears
    \/ Tick

SessionSpec == SessionInit /\ [][SessionNext]_vars

\* the session store across page reloads
DurableNext ==
    \/ SignInWithToken
    \/ SignOut
    \/ HolderClears
    \/ Tick
    \/ Restart

DurableSpec == SessionInit /\ [][DurableNext]_vars

\* the Google sign-in and sign-out on top of the session store
GoogleNext ==
    \/ SignInWithGoogle
    \/ GapiLoadSettles
    \/ Auth2InitSettles
    \/ SignInWithGoogleResumes
    \/ AuthInstanceSignInSettles
    \/ SignInWithGoogleReturns
    \/ ClockMovesInSignIn
    \/ HolderClears
    \/ SignOutFromGoogle
    \/ ProviderSignOutSettles

\* the page is loaded with nothing stored, or with the stored session of an
\* earlier Google sign-in
GoogleSpecInit ==
    /\ SessionInit
    /\ \/ storage = Null
       \/ /\ IsJsonText(storage)
          /\ JsonParse(storage).provider = Str("google")

GoogleSpec == GoogleSpecInit /\ [][GoogleNext]_vars

\* executeQuery on Query instances and raw payloads
QuerySpecInit ==
    /\ QueryInit /\ PanelIdle /\ StoreIdle /\ ProbeIdle /\ GoogleIdle
    /\ EndpointIdle /\ ModelIdle /\ ThemeIdle
    /\ now = 0

QueryNext ==
    \/ NewQuery
    \/ ExecuteQuery
    \/ ExecutePayload
    \/ ExecuteQuerySettles

QuerySpec == QuerySpecInit /\ [][QueryNext]_vars

\* the execute endpoint on top of the session store and executeQuery
EndpointSpecInit ==
    /\ EndpointInit /\ StoreInit /\ QueryInit
    /\ ~lastCall.storeThrew
    /\ storage = Null \/ IsJsonText(storage)
    /\ PanelIdle /\ ProbeIdle /\ GoogleIdle /\ ModelIdle /\ ThemeIdle
    /\ now = 0

EndpointNext ==
    \/ ExecuteEndpoint
    \/ ExecuteEndpointResumes
    \/ ClockMovesInGap
    \/ SignOutAround
    \/ HolderClears
    \/ ExecuteEndpointSettles

EndpointSpec == EndpointSpecInit /\ [][EndpointNext]_vars

\* the Query value object: construction, fromJSON, toJSON, clone
ModelSpecInit ==
    /\ ModelInit /\ PanelIdle /\ StoreIdle /\ ProbeIdle /\ GoogleIdle
    /\ EndpointIdle /\ ThemeIdle
    /\ now = 0

ModelNext ==
    \/ Construct
    \/ FromJSON
    \/ RoundTrip
    \/ Clone

ModelSpec == ModelSpecInit /\ [][ModelNext]_vars

\* the theme toggle across page loads
ThemeSpecInit ==
    /\ ThemeInit /\ PanelIdle /\ StoreIdle /\ ProbeIdle /\ GoogleIdle
    /\ QueryIdle /\ EndpointIdle /\ ModelIdle
    /\ now = 0

ThemeNext ==
    \/ Mount
    \/ ToggleTheme
    \/ UpdateSettings
    \/ WatcherRuns
    \/ Reload

ThemeSpec == ThemeSpecInit /\ [][ThemeNext]_vars

\* UserSession.isAuthenticated
AuthInit ==
    /\ ProbeInit /\ PanelIdle /\ StoreIdle /\ GoogleIdle /\ QueryIdle
    /\ EndpointIdle /\ ModelIdle /\ ThemeIdle
    /\ now \in 0..MaxProbeTime

AuthNext ==
    \/ ProbeEvaluate
    \/ ProbeTick
    \/ ProbeClear

AuthSpec == AuthInit /\ [][AuthNext]_vars

(***************************************************************************)
(* Properties of the panel manager (Spec, FairSpec)                        *)
(***************************************************************************)
Flags == {"showResults", "showSchema", "showSettings", "showKeyboardHelp"}

\* the keydown events with the given Ctrl state and key, whatever their
\* target and Meta state
Chord(ev, ctrlKey, key) ==
    ev.kind = "keydown" /\ ev.ctrlKey = ctrlKey /\ ev.key = key

\* the flag a toggle event is about, "none" for every other event
ToggledBy(ev) ==
    CASE Chord(ev, TRUE, "r") \/ ev = Other("close-results") -> "showResults"
      [] Chord(ev, TRUE, "s") \/ ev = Other("close-schema") -> "showSchema"
      [] Chord(ev, TRUE, ",") \/ ev = Other("close-settings") -> "showSettings"
      [] Chord(ev, TRUE, "/") \/ ev = Other("close-help") -> "showKeyboardHelp"
      [] OTHER -> "none"

\* the execute chord of the editor's fallback textarea: Enter with Cmd on an
\* Apple platform, with Ctrl elsewhere
EditorChord(ev) ==
    /\ ev.kind = "keydown"
    /\ ev.target = "textarea"
    /\ ev.key = "Enter"
    /\ IF isMac(ev.platform) THEN ev.metaKey ELSE ev.ctrlKey

\* the events that call the execution routine: Ctrl+E, the textarea's
\* execute chord and the Monaco editor's execute command
ExecuteTrigger(ev) ==
    Chord(ev, TRUE, "e") \/ EditorChord(ev) \/ ev = Other("execute")

\* C1: a toggle event (Ctrl+R, Ctrl+S, Ctrl+',', Ctrl+'/' or a close button)
\* flips its own flag and leaves the other three flags, the query text, the
\* results and isExecutingQuery as they were before the event.
C1_ToggleFlipsOnlyItsFlag ==
    LET own == ToggledBy(lastEvent)
    IN  own # "none" =>
            /\ Snapshot[own] = ~prev[own]
            /\ \A f \in Flags \ {own} : Snapshot[f] = prev[f]
            /\ query = prev.query
            /\ queryResults = prev.queryResults
            /\ isExecutingQuery = prev.isExecutingQuery

\* Ctrl+R has closed the results panel while the other three were open, an
\* execution was running and results were on display
C1_Witness ==
    /\ lastEvent = KeyEvent(TRUE, "r")
    /\ prev.showResults /\ ~showResults
    /\ showSchema /\ showSettings /\ showKeyboardHelp
    /\ isExecutingQuery
    /\ queryResults = SampleResults

\* C2: after Escape without Ctrl all four flags are false, whatever they were
\* before, also when they were all false already (a second Escape).
C2_EscapeClosesAll ==
    Chord(lastEvent, FALSE, "Escape") =>
        /\ ~showResults
        /\ ~showSchema
        /\ ~showSettings
        /\ ~showKeyboardHelp

\* Escape has closed four open panels
C2_Witness ==
    /\ lastEvent = KeyEvent(FALSE, "Escape")
    /\ prev.showResults /\ prev.showSchema
    /\ prev.showSettings /\ prev.showKeyboardHelp
    /\ ~showResults /\ ~showSchema /\ ~showSettings /\ ~showKeyboardHelp

\* C3: every started execution resets the busy flag when its awaited work
\* settles, resolved or rejected: a raised flag is lowered again, and the
\* flag is down whenever no started execution is outstanding.
C3_BusyFlagIsReset ==
    /\ [](inFlight = 0 => ~isExecutingQuery)
    /\ [](lastEvent.kind = "settle" => ~isExecutingQuery)
    /\ (isExecutingQuery ~> ~isExecutingQuery)

\* the last outstanding execution has rejected and the flag went down
C3_Witness ==
    /\ lastEvent = Event("settle", FALSE, "-", "rejected")
    /\ prev.isExecutingQuery
    /\ inFlight = 0
    /\ ~isExecutingQuery

\* C4: an execution trigger with non-blank text sets isExecutingQuery and
\* showResults to true (an open results panel stays open) and leaves the
\* schema, settings and help flags alone.
C4_ExecuteForcesResultsOpen ==
    (ExecuteTrigger(lastEvent) /\ Trim(prev.query) # <<>>) =>
        /\ isExecutingQuery
        /\ showResults
        /\ showSchema = prev.showSchema
        /\ showSettings = prev.showSettings
        /\ showKeyboardHelp = prev.showKeyboardHelp

\* Ctrl+E pressed with the results panel already open
C4_Witness ==
    /\ lastEvent = KeyEvent(TRUE, "e")
    /\ Trim(prev.query) # <<>>
    /\ prev.showResults /\ showResults
    /\ ~prev.isExecutingQuery /\ isExecutingQuery
    /\ showSchema /\ ~showSettings

\* C5: an execution trigger with empty or whitespace-only text changes
\* nothing: no execution starts and the flags, the busy flag and the results
\* are what they were; the busy flag stays false and a closed results panel
\* stays closed.
C5_BlankQueryIsNoOp ==
    (ExecuteTrigger(lastEvent) /\ Trim(prev.query) = <<>>) =>
        /\ Snapshot = prev
        /\ (~prev.isExecutingQuery => ~isExecutingQuery)
        /\ (~prev.showResults => ~showResults)

\* Ctrl+E pressed on whitespace-only text
C5_Witness ==
    /\ lastEvent = KeyEvent(TRUE, "e")
    /\ prev.query = <<" ", " ">>
    /\ ~isExecutingQuery
    /\ ~showResults
    /\ inFlight = 0

(***************************************************************************)
(* Properties of UserSession.isAuthenticated (AuthSpec)                    *)
(***************************************************************************)
NotExpiredAt(s, t) ==
    \/ s.expiresAt = Null
    \/ getTime(s.expiresAt) >= t

\* a step in which isAuthenticated() was called
EvaluateStep == probeResult'.seq # probeResult.seq

\* C6 as stated: isAuthenticated() is true iff accessToken is non-null and
\* expiresAt is null or not earlier than the evaluation time.
C6_AuthenticatedIffNonNullToken ==
    [][EvaluateStep =>
          (probeResult'.value <=>
              (probe'.accessToken # Null
               /\ NotExpiredAt(probe', probeResult'.at)))]_vars

\* C6 amended: isAuthenticated() is true iff accessToken is neither null nor
\* the empty string and expiresAt is null or not earlier than the evaluation
\* time; at expiresAt = now it is true, one millisecond later false.
C6_AuthenticatedIffTokenPresent ==
    [][EvaluateStep =>
          (probeResult'.value <=>
              (/\ probe'.accessToken # Null
               /\ probe'.accessToken # Str("")
               /\ NotExpiredAt(probe', probeResult'.at)))]_vars

\* evaluated at the very instant of expiry, and found authenticated
C6_Witness ==
    /\ probeResult.evaluated
    /\ probeResult.value
    /\ probe.expiresAt # Null
    /\ getTime(probe.expiresAt) = probeResult.at

(***************************************************************************)
(* Properties of the session store (SessionSpec)                           *)
(***************************************************************************)
\* a step in which a function of the session store was called
StoreCallStep == lastCall'.seq # lastCall.seq

\* what holds when signInWithToken(p) has just returned with a working store
SignInInstalledAndPersisted ==
    (lastCall.name = "signInWithToken" /\ ~lastCall.storeThrew) =>
        /\ ~lastCall.threw
        /\ lastCall.ret # NoRef
        /\ LET p == lastCall.payload
               s == heap[lastCall.ret]
           IN  /\ s.accessToken = p.accessToken
               /\ s.provider = (IF p.provider = Undefined THEN Str("token")
                                ELSE p.provider)
               /\ (p.userId = Undefined => s.userId = Null)
               /\ (p.refreshToken \in {Undefined, Null} => s.refreshToken = Null)
               /\ getSession = lastCall.ret
               /\ IsJsonText(storage)
               /\ JsonParse(storage).accessToken = s.accessToken
               /\ JsonParse(storage).provider = s.provider
               /\ JsonParse(storage).userId = s.userId
               /\ JsonParse(storage).refreshToken = s.refreshToken
               /\ JsonParse(storage).expiresAt =
                      (IF s.expiresAt = Null THEN Null
                       ELSE IsoOf(getTime(s.expiresAt)))

\* C7: when signInWithToken(p) returns with a working store the returned
\* session carries p's access token, p's provider or "token", null for an
\* absent userId or refreshToken; getSession() is that object; and the store
\* holds its JSON serialization.
C7_SignInInstallsAndPersists ==
    [][StoreCallStep => SignInInstalledAndPersisted']_vars

\* a sign-in with only an access token, over an earlier sign-in
C7_Witness ==
    /\ lastCall.name = "signInWithToken"
    /\ Len(heap) >= 3
    /\ ~lastCall.storeThrew
    /\ lastCall.payload.provider = Undefined
    /\ heap[getSession].provider = Str("token")
    /\ heap[getSession].accessToken = Str("abc")
    /\ IsJsonText(storage)

\* a step in which signOut() was called
SignOutStep == lastCall'.name = "signOut" /\ lastCall'.seq # lastCall.seq

\* C8: signOut() keeps the session object and nulls its five fields; after
\* it isAuthenticated() is false and getAuthToken() null; with a working
\* store the persisted entry is gone; a signOut() right after a signOut()
\* changes nothing.
C8_SignOutClearsInPlace ==
    [][SignOutStep =>
          /\ ~lastCall'.threw
          /\ currentSession' = currentSession
          /\ IsEmptySession(heap'[currentSession'])
          /\ ~isAuthenticated(heap'[currentSession'], now')
          /\ getAuthToken' = Null
          /\ (~lastCall'.storeThrew => storage' = Null)
          /\ ((lastCall.name = "signOut" /\ ~lastCall.storeThrew) =>
                  UNCHANGED <<heap, currentSession, storage>>)]_vars

\* a full, persisted sign-in has been signed out
C8_Witness ==
    /\ lastCall.name = "signOut"
    /\ currentSession > 1
    /\ ~lastCall.storeThrew
    /\ currentSession \in handedOut
    /\ IsEmptySession(heap[currentSession])
    /\ storage = Null

\* C9 as stated: every reference handed out so far is the object that
\* getSession() returns now.
C9_OneInstanceForEver ==
    \A ref \in handedOut : ref = getSession

\* C9 amended: every reference handed out since the latest signIn (by that
\* signIn or by getSession) is the object getSession() returns now; signOut
\* mutates it in place, and only signIn installs a new instance.
C9_OneInstanceSinceSignIn ==
    /\ \A ref \in handedSince : ref = getSession
    /\ (lastCall.name = "signInWithToken" => lastCall.ret = getSession)

\* after a sign-out the reference handed out by the latest sign-in is still
\* current, while an older reference is not
C9_Witness ==
    /\ lastCall.name = "signOut"
    /\ getSession \in handedSince
    /\ \E ref \in handedOut : ref # getSession

\* what holds when a function of the session store has just returned, or
\* the module has just been loaded
FailureSwallowed ==
    /\ ~lastCall.threw
    /\ (lastCall.name = "signInWithToken" /\ lastCall.storeThrew) =>
           /\ lastCall.ret # NoRef
           /\ lastCall.ret = getSession
           /\ heap[getSession].accessToken = lastCall.payload.accessToken
    /\ (lastCall.name = "signOut" /\ lastCall.storeThrew) =>
           /\ IsEmptySession(heap[getSession])
           /\ ~isAuthenticated(heap[getSession], now)
    /\ (lastCall.name = "load" /\ (lastCall.storeThrew \/ ~IsJsonText(storage))) =>
           /\ IsEmptySession(heap[getSession])
           /\ ~isAuthenticated(heap[getSession], now)

\* C10: no session-store operation throws when the key-value store does;
\* signIn still installs and returns the new session, signOut still clears
\* the session in memory, and a load that fails or finds unparsable text
\* leaves an empty, unauthenticated session.
C10_PersistenceFailuresAreSwallowed ==
    FailureSwallowed /\ [][StoreCallStep => FailureSwallowed']_vars

\* setItem threw during a sign-in: the session is installed although the
\* store still holds something else
C10_Witness ==
    /\ lastCall.name = "signInWithToken"
    /\ lastCall.storeThrew
    /\ lastCall.ret = getSession
    /\ isAuthenticated(heap[getSession], now)
    /\ ~IsJsonText(storage)

(***************************************************************************)
(* Properties of the session store across reloads (DurableSpec)            *)
(***************************************************************************)
RestartStep == lastCall'.name = "restart" /\ lastCall'.seq # lastCall.seq

\* two sessions agree field for field; expiresAt is compared as an instant
SameFields(a, b) ==
    /\ a.userId = b.userId
    /\ a.provider = b.provider
    /\ a.accessToken = b.accessToken
    /\ a.refreshToken = b.refreshToken
    /\ a.expiresAt = b.expiresAt

\* C11: with a working store, a restart that follows a signIn loads a
\* session equal field for field to the one that was signed in: it carries
\* what the payload gave, and it equals the session object of the old
\* process unless a holder has cleared that object since; a restart that
\* follows a signOut loads an empty, unauthenticated session.
C11_RestartRestoresSession ==
    [][ (RestartStep /\ ~lastCall'.storeThrew /\ ~lastCall.storeThrew) =>
          /\ lastCall.name = "signInWithToken" =>
                LET p == lastCall.payload
                    s == heap'[getSession']
                IN  /\ s.accessToken = p.accessToken
                    /\ s.provider = Coalesce(p.provider, Str("token"))
                    /\ s.userId = Coalesce(p.userId, Null)
                    /\ s.refreshToken = Coalesce(p.refreshToken, Null)
                    /\ (s.expiresAt = Null) <=> Falsy(p.expiresIn)
                    /\ ~IsEmptySession(heap[getSession]) =>
                          SameFields(s, heap[getSession])
          /\ lastCall.name = "signOut" =>
                /\ IsEmptySession(heap'[getSession'])
                /\ ~isAuthenticated(heap'[getSession'], now') ]_vars

\* a reload right after a sign-in with every field set has brought the
\* session back from the store, expiry included
C11_Witness ==
    /\ lastCall.name = "restart"
    /\ lastCall.beforeName = "signInWithToken"
    /\ ~lastCall.storeThrew
    /\ Len(heap) = 1
    /\ heap[getSession] =
           [userId |-> Str("u1"), provider |-> Str("google"),
            accessToken |-> Str("tok2"), refreshToken |-> Str("r1"),
            expiresAt |-> DateOf(now + 1000)]

(***************************************************************************)
(* Properties of the Google sign-in and sign-out (GoogleSpec)              *)
(***************************************************************************)
\* the call in slot i takes a step / ends / is given its session
GoogleSignInStep(i) == signIns'[i] # signIns[i]

GoogleSignInEnds(i) == signIns[i].pc # "idle" /\ signIns'[i].pc = "idle"

GoogleSignInInstalls(i) ==
    signIns[i].pc = "authInstance.signIn" /\ signIns'[i].pc = "signInWithToken"

GoogleSignOutStep ==
    lastCall'.name = "signOut" /\ lastCall'.seq # lastCall.seq

ProviderSettleStep ==
    providerPending' < providerPending

\* the position of the first occurrence of x in log, 0 when there is none
RECURSIVE IndexOf(_, _)
IndexOf(log, x) ==
    IF log = <<>> THEN 0
    ELSE IF Head(log) = x THEN 1
    ELSE IF IndexOf(Tail(log), x) = 0 THEN 0
    ELSE 1 + IndexOf(Tail(log), x)

\* C12: signInWithGoogle() never throws; a call that ends because the user
\* cancelled or because the initialisation or the provider's sign-in failed
\* returns null, and no step of such a call writes the current session or
\* the persisted entry; signInWithToken is called, with provider "google",
\* by the step that completes the handshake and by no other, and the call
\* then returns the session it was given.
C12_GoogleSignInFailsSoftly ==
    [][ \A i \in 1..MaxPending : GoogleSignInStep(i) =>
          /\ GoogleSignInInstalls(i) <=> (lastCall'.seq # lastCall.seq)
          /\ ~GoogleSignInInstalls(i) =>
                /\ heap' = heap
                /\ currentSession' = currentSession
                /\ storage' = storage
          /\ GoogleSignInInstalls(i) =>
                /\ lastCall'.name = "signInWithToken"
                /\ lastCall'.payload.provider = Str("google")
                /\ signIns'[i].session = getSession'
                /\ heap'[getSession'].provider = Str("google")
          /\ GoogleSignInEnds(i) =>
                /\ googleCall'.name = "signInWithGoogle"
                /\ ~googleCall'.threw
                /\ googleCall'.ret = signIns[i].session
                /\ (googleCall'.outcome = "completed")
                      <=> (signIns[i].pc = "signInWithToken")
                /\ (googleCall'.outcome = "completed")
                      <=> (googleCall'.ret # NoRef) ]_vars

\* the initialisation of a call failed while the session loaded from the
\* store was current: the call waited, returned null in a later turn, and
\* the session and the stored entry are what they were
C12_Witness ==
    /\ googleCall.name = "signInWithGoogle"
    /\ googleCall.outcome = "init-failed"
    /\ ~googleCall.threw
    /\ googleCall.ret = NoRef
    /\ ~isGoogleApiInitialized
    /\ \A i \in 1..MaxPending : signIns[i].pc = "idle"
    /\ lastCall.name = "load"
    /\ isAuthenticated(heap[getSession], now)
    /\ heap[getSession].accessToken = Str("old")
    /\ storage = JsonText(toJSON(heap[getSession]))

\* C13: signOutFromGoogle() signs out locally before it notifies the
\* provider, so the session is already cleared when the provider is asked;
\* when the provider's signOut fails the call still completes without
\* throwing and the session and the store stay as the local sign-out left
\* them.
C13_LocalSignOutFirst ==
    [][ /\ GoogleSignOutStep =>
              /\ IndexOf(googleCall'.log, "signOut") = 1
              /\ IsEmptySession(heap'[getSession'])
              /\ ~googleCall'.threw
        /\ ProviderSettleStep =>
              /\ ~googleCall'.threw
              /\ heap' = heap
              /\ currentSession' = currentSession
              /\ storage' = storage ]_vars

\* the provider's signOut has rejected after a Google session was signed
\* out; the session is empty and the entry is gone
C13_Witness ==
    /\ googleCall.name = "providerSignOut"
    /\ googleCall.outcome = "rejected"
    /\ isGoogleApiInitialized
    /\ Len(heap) >= 2
    /\ IsEmptySession(heap[getSession])
    /\ storage = Null

(***************************************************************************)
(* Properties of executeQuery (QuerySpec)                                  *)
(***************************************************************************)
\* a call of executeQuery is made / the awaited promise of one settles
ExecuteStartStep ==
    run'.seq # run.seq /\ run'.pc \in {"awaiting", "rejected"}
ExecuteSettleStep == run.pc = "awaiting" /\ run'.pc # "awaiting"

\* the call went to the external API adapter
ApiInvoked(r) ==
    \E i \in 1..Len(r.calls) :
        r.calls[i] \in {"executeBigQueryQuery", "initializeBigQueryAPI",
                        "jobs.query"}

\* C14: a call of executeQuery that passes validation goes to the external
\* query API exactly when a session is supplied and its isAuthenticated() is
\* true at the start of the call; otherwise the API is never invoked and the
\* call resolves with the mock result, whose jobId is "local-<query id>".
C14_ApiOnlyWhenAuthenticated ==
    [][ /\ (ExecuteStartStep /\ run'.pc = "awaiting") =>
              (ApiInvoked(run') <=>
                  (run'.session.given
                      /\ isAuthenticated(run'.session.s, now)))
        /\ ExecuteSettleStep =>
              /\ ApiInvoked(run') <=> ApiInvoked(run)
              /\ ~ApiInvoked(run') =>
                    /\ run'.pc = "resolved"
                    /\ run'.result.jobId = LocalJobId(qobj'.id) ]_vars

\* a session whose token had expired when the call started got the mock
C14_Witness ==
    /\ run.pc = "resolved"
    /\ run.session.given
    /\ run.session.s.accessToken = Str("abc")
    /\ run.session.s.expiresAt = DateOf(MockDelay - 1)
    /\ ~ApiInvoked(run)
    /\ run.result.jobId = <<"local-", "t1">>

\* the literal text "from numbers", case folded, occurs in sql
ContainsFromNumbers(sql) ==
    \E i \in 1..Len(sql) :
        MatchesAt(sql, i, <<"f", "r", "o", "m", " ",
                            "n", "u", "m", "b", "e", "r", "s">>)

Numbers == <<[n |-> Num(1)], [n |-> Num(2)], [n |-> Num(3)]>>

\* the rules of the mock, with `isNumbers` deciding the second rule
MockRules(isNumbers) ==
    (run.pc = "resolved" /\ ~ApiInvoked(run)) =>
        LET sql == qobj.sql[2]
            rows == run.result.rows
        IN  /\ qobj.status = Str("completed")
            /\ run.result.jobId = LocalJobId(qobj.id)
            /\ IF ~isSelect(sql)
               THEN rows = <<>> /\ run.result.schema = <<>>
               ELSE IF isNumbers
               THEN rows = Numbers
               ELSE /\ Len(rows) = 1
                    /\ DOMAIN rows[1] = {"raw_sql", "ranAt"}
                    /\ rows[1].raw_sql = Trim(sql)

\* C15 as stated: the mock answers SQL that is not a select statement with
\* no rows and no schema, other SQL containing "from numbers" (in any case)
\* with the rows {n:1},{n:2},{n:3}, and any other select with one row whose
\* raw_sql is the trimmed SQL; the Query ends completed with jobId
\* "local-<id>".
C15_NumbersByLiteralText == MockRules(ContainsFromNumbers(qobj.sql[2]))

\* C15, amended: the second rule applies to SQL in which "from", one or more
\* whitespace characters and "numbers" follow one another (in any case).
C15_NumbersByWhitespaceRun == MockRules(fromNumbers(qobj.sql[2]))

\* "SELECT n FROM  Numbers", with two blanks, was answered with the numbers
C15_Witness ==
    /\ run.pc = "resolved"
    /\ ~ApiInvoked(run)
    /\ fromNumbers(qobj.sql[2])
    /\ ~ContainsFromNumbers(qobj.sql[2])
    /\ run.result.rows = Numbers

\* C16: every failure on the delegated path, of the client initialisation
\* or of the query call, makes executeQuery reject with a message that starts
\* with "BigQuery execution failed: ", and leaves the Query failed with the
\* message in lastError.
C16_DelegatedFailuresArePrefixed ==
    (run.pc = "rejected" /\ ApiInvoked(run)) =>
        /\ run.message # <<>>
        /\ Head(run.message) = "BigQuery execution failed: "
        /\ qobj.status = Str("failed")
        /\ qobj.lastError = ErrorText(run.message)

\* C17: a call with invalid input (a Query whose id or sql is empty, a raw
\* payload that is not an object or whose id or sql is not a string) rejects
\* with the Query as it was, status, updatedAt and lastError included, and
\* without the mock or the external API being invoked; a call that goes on
\* has a Query whose id and sql are non-empty strings.
C17_InvalidInputFailsFirst ==
    [][ ExecuteStartStep =>
          /\ run'.pc = "rejected" =>
                /\ qobj' = qobj
                /\ run'.calls = <<>>
                /\ run'.result = NoResult
          /\ run'.pc = "awaiting" =>
                /\ IsString(qobj'.id) /\ ~Not(qobj'.id)
                /\ IsString(qobj'.sql) /\ ~Not(qobj'.sql) ]_vars

\* a draft Query without an id was rejected although the session supplied
\* was authenticated
C17_Witness ==
    /\ run.pc = "rejected"
    /\ run.calls = <<>>
    /\ run.isQuery
    /\ Not(qobj.id)
    /\ qobj.status = Str("draft")
    /\ run.session.given
    /\ isAuthenticated(run.session.s, now)
    /\ run.message = <<"Query validation failed: ", "id is required">>

\* C18: a run on a valid Query sets the status to "running" for as long as
\* the call is awaiting, and to "completed" when it resolves or "failed" when
\* it rejects; a failed Query has a string in lastError; every change of the
\* status sets updatedAt to the time of the change.
C18_StatusLifecycle ==
    [][ /\ run'.pc = "awaiting" => qobj'.status = Str("running")
        /\ ExecuteSettleStep =>
              /\ run'.pc = "resolved" <=> qobj'.status = Str("completed")
              /\ run'.pc = "rejected" <=> qobj'.status = Str("failed")
              /\ qobj'.status = Str("failed") =>
                    /\ qobj'.lastError # Null
                    /\ IsString(qobj'.lastError)
        /\ qobj'.status # qobj.status => qobj'.updatedAt = DateOf(now') ]_vars

\* a delegated call has failed some time after it was started
C18_Witness ==
    /\ run.pc = "rejected"
    /\ ApiInvoked(run)
    /\ qobj.status = Str("failed")
    /\ qobj.lastError =
           <<"string", "BigQuery execution failed: ", "Invalid query syntax">>
    /\ now > 0
    /\ qobj.createdAt = DateOf(0)
    /\ qobj.updatedAt = DateOf(now)

(***************************************************************************)
(* Properties of executeEndpoint (EndpointSpec)                            *)
(***************************************************************************)
EndpointStartStep == request'.seq # request.seq

\* no sign-in and no query execution took place in this step
NothingRan ==
    /\ heap' = heap
    /\ currentSession' = currentSession
    /\ storage' = storage
    /\ lastCall' = lastCall
    /\ qobj' = qobj
    /\ run' = run

\* the query is missing, is not a string, or is empty after trimming
QueryMissing(q) ==
    \/ q \in {Undefined, Null}
    \/ q[1] \notin {"string", "text"}
    \/ (q[1] = "text" /\ Trim(q[2]) = <<>>)

\* C19: a request whose query is missing, not a string or blank is answered
\* 400 "Query is required" whatever its authToken, "invalid-token" included;
\* any other request whose authToken is "invalid-token" is answered 401
\* "Authentication failed"; in both cases there is no sign-in and no query
\* execution, and the session and the persisted entry stay as they were.
C19_InputCheckedBeforeToken ==
    [][ EndpointStartStep =>
          /\ QueryMissing(request'.query) =>
                /\ response'.statusCode = 400
                /\ response'.error = Str("Query is required")
                /\ NothingRan
          /\ (~QueryMissing(request'.query)
                  /\ request'.authToken = Str("invalid-token")) =>
                /\ response'.statusCode = 401
                /\ response'.error = Str("Authentication failed")
                /\ NothingRan ]_vars

\* a blank query posted with the token "invalid-token" was answered 400
\* while a session was signed in and stored
C19_Witness ==
    /\ request.query = RawText(<<" ", "\t">>)
    /\ request.authToken = Str("invalid-token")
    /\ response.statusCode = 400
    /\ heap[getSession].accessToken = Str("valid-token")
    /\ storage = JsonText(toJSON(heap[getSession]))

\* the return sites of executeEndpoint: the 400 of the input check, the 401
\* of the token check, and the responses built from what executeQuery gave
\* or threw; a promise that has settled otherwise was rejected
ReturnSites == {"input", "token", "adapter"}
Settled(r) == r.stage \notin {"none", "signedIn", "pending"}

\* the envelope of every response
EndpointContract ==
    /\ response.stage \in ReturnSites
    /\ response.statusCode \in {200, 400, 401, 500}
    /\ response.status = "success" <=> response.statusCode = 200
    /\ response.statusCode = 200 <=> response.error = Null
    /\ response.statusCode # 200 => response.results = <<>>

\* C20: executeEndpoint is total: whatever the request, the sign-in and the
\* adapter do, its promise resolves, never rejects, with a status code among
\* 200, 400, 401 and 500; body.status is "success" exactly when the code is
\* 200, which is exactly when body.error is null; results is empty unless
\* the code is 200; an adapter error whose message is exactly "User not
\* authenticated" gives 401 "Authentication failed" and every other adapter
\* error gives 500 with that error's message as body.error.
C20_ErrorCarriesAdapterMessage ==
    Settled(response) =>
        /\ EndpointContract
        /\ (response.stage = "adapter" /\ run.pc = "rejected") =>
              IF run.message = <<"User not authenticated">>
              THEN /\ response.statusCode = 401
                   /\ response.error = Str("Authentication failed")
              ELSE /\ response.statusCode = 500
                   /\ response.error = StrOf(run.message)

\* the rejection executeQuery ended with came from jobs.query, and so went
\* through the catch block of executeBigQueryQuery
WrappedFailure ==
    /\ run.pc = "rejected"
    /\ run.delegated
    /\ run.calls[Len(run.calls)] = "jobs.query"

\* the rejection is that of initializeBigQueryAPI(), which is awaited
\* before the try block of executeBigQueryQuery
UnwrappedFailure ==
    /\ run.pc = "rejected"
    /\ run.delegated
    /\ run.calls[Len(run.calls)] = "initializeBigQueryAPI"

\* what the endpoint does with the failures that are wrapped: it answers
\* 500 with the wrapped message, which is never empty
WrappedFailuresAreCarried ==
    (response.stage = "adapter" /\ WrappedFailure) =>
        /\ response.statusCode = 500
        /\ response.error = StrOf(run.message)
        /\ run.message # <<>>

\* the load of the API client failed with an empty message, which reached
\* the endpoint as it was, and the endpoint answered 500 with its default
\* text
EmptyMessageReachesEndpoint ==
    /\ response.stage = "adapter"
    /\ UnwrappedFailure
    /\ run.message = <<>>
    /\ qobj.status = Str("failed")
    /\ response.statusCode = 500
    /\ response.error = Str("Query execution failed")
(***************************************************************************)
(* Properties of the Query value object (ModelSpec)                        *)
(***************************************************************************)
\* C21: for every Query whose id and sql are strings, Query.fromJSON(q.toJSON())
\* does not throw and returns a Query equal to q field for field: id, sql,
\* name (present or absent), status, createdAt and updatedAt as instants, and
\* lastError, where a null lastError comes back as null.
C21_RoundTripIsIdentity ==
    qop.name = "roundTrip" /\ IsString(qobj.id) /\ IsString(qobj.sql) =>
        /\ ~qop.threw
        /\ qcopy.id = qobj.id
        /\ qcopy.sql = qobj.sql
        /\ qcopy.name = qobj.name
        /\ qcopy.status = qobj.status
        /\ getTime(qcopy.createdAt) = getTime(qobj.createdAt)
        /\ getTime(qcopy.updatedAt) = getTime(qobj.updatedAt)
        /\ qcopy.lastError = qobj.lastError
        /\ (qobj.lastError = Null => qcopy.lastError = Null)

\* a round trip of a Query without a name, with a null lastError and with
\* two different timestamps
C21_Witness ==
    /\ qop.name = "roundTrip" /\ ~qop.threw
    /\ IsString(qobj.id)
    /\ qobj.name = Undefined
    /\ qobj.lastError = Null /\ qcopy.lastError = Null
    /\ qobj.createdAt # qobj.updatedAt
    /\ qobj.status = Str("failed")

\* C22: every Query made by the constructor, by Query.fromJSON or by
\* clone(overrides) has a status that is one of draft, running, completed,
\* failed, whatever status the payload or the overrides carry.
C22_StatusIsOneOfFour ==
    /\ qobj.status \in QueryStatuses
    /\ qcopy.status \in QueryStatuses

(***************************************************************************)
(* Properties of the theme toggle (ThemeSpec)                              *)
(***************************************************************************)
\* C23: with a working store, a mount that finds "dark" stored while
\* modelValue is false emits update:modelValue(true), a mount that finds
\* "light" stored while modelValue is true emits update:modelValue(false),
\* and a mount that finds either of them stored and agreeing with
\* modelValue emits nothing, whatever the system colour scheme is.
C23_StoredThemeWinsOnMount ==
    /\ themeCall.name = "mount"
    /\ ~themeCall.setThrew /\ ~themeCall.getThrew
    /\ themeCall.storedBefore \in {Str("dark"), Str("light")}
    => LET wanted == (themeCall.storedBefore = Str("dark"))
       IN  themeCall.emitted = IF wanted # themeCall.modelValue
                               THEN <<Bool(wanted)>> ELSE <<>>

(***************************************************************************)
(* More properties of the panel manager (Spec)                             *)
(***************************************************************************)
\* the rows executeQuery returns for a query text run without a session
AdapterRows(text) ==
    mockResult(Query(QueryPayload(Str("t1"), RawText(text)), now), now).rows

\* C24: when an execution started from the panel settles, the results
\* collection holds the rows the Query Execution Adapter returns for a
\* non-blank query text if the call succeeded, and is empty if it failed.
C24_ResultsAreAdapterRows ==
    lastEvent.kind = "settle" =>
        IF lastEvent.outcome = "resolved"
        THEN \E text \in QueryTexts :
                /\ Trim(text) # <<>>
                /\ queryResults = AdapterRows(text)
        ELSE queryResults = <<>>

\* C25 as claimed: isExecutingQuery is true whenever at least one started
\* execution has not yet settled.
C25_BusyWhileAnyInFlight == inFlight > 0 => isExecutingQuery

\* C25: isExecutingQuery is true right after every execution start with a
\* non-blank query, it is true only while at least one execution is in
\* flight, and it is false right after any one execution settles, also when
\* another execution is still in flight.
C25_BusyUntilFirstSettle ==
    /\ isExecutingQuery => inFlight > 0
    /\ ExecuteTrigger(lastEvent) /\ Trim(prev.query) # <<>>
           => isExecutingQuery
    /\ lastEvent.kind = "settle" => ~isExecutingQuery

\* one of two overlapping executions has settled and the other has not
C25_Witness ==
    /\ lastEvent.kind = "settle"
    /\ prev.inFlight = 2
    /\ inFlight = 1
    /\ ~isExecutingQuery

\* the chords onKeydown acts on
RecognizedChord(ev) ==
    \/ ev.ctrlKey /\ ev.key \in {"r", "s", ",", "e", "/"}
    \/ ~ev.ctrlKey /\ ev.key = "Escape"

SignedOut(ref) ==
    /\ heap[ref].accessToken = Null
    /\ ~isAuthenticated(heap[ref], now)

\* C26 as claimed: after signOut() returns, no session object handed to a
\* caller at any earlier point carries an access token or is authenticated.
C26_NoHandedOutSessionKeepsToken ==
    lastCall.name = "signOut" => \A ref \in handedOut : SignedOut(ref)

\* C26: after signOut() returns, the current session object and every
\* reference handed out since the latest signInWithToken (by that call or by
\* getSession) carry no access token and are not authenticated; an object
\* handed out before a later signInWithToken replaced it is not touched.
C26_CurrentSessionIsSignedOut ==
    lastCall.name = "signOut" =>
        \A ref \in handedSince \cup {getSession} : SignedOut(ref)

\* after two sign-ins and a sign-out the first session object, still held
\* by its caller, is authenticated, and the second is not
C26_Witness ==
    /\ lastCall.name = "signOut"
    /\ handedSince # {}
    /\ \A ref \in handedSince : SignedOut(ref)
    /\ \E ref \in handedOut \ handedSince :
          /\ heap[ref].accessToken = Str("abc")
          /\ isAuthenticated(heap[ref], now)

\* C27 as claimed: the session loaded at a process start is the empty
\* session or equal to the session that was current when the process
\* stopped, also when store operations threw before.
C27_RestartNeverResurrects ==
    [][RestartStep =>
          \/ IsEmptySession(heap'[getSession'])
          \/ SameFields(heap'[getSession'], heap[getSession])]_vars

\* C27: the session loaded at a process start is the empty session or the
\* one the store held when the process stopped.  Whenever the store
\* operation of the latest load, signIn or signOut before the stop did not
\* throw, it is the empty session after a signOut, and it equals the session
\* that was current at the stop unless a holder had emptied that object with
\* clear().  After a throwing setItem or removeItem, or after such a clear(),
\* the store still holds the entry of an earlier signIn, and that session is
\* loaded.
C27_RestartLoadsWhatTheStoreHolds ==
    [][RestartStep =>
          /\ \/ IsEmptySession(heap'[getSession'])
             \/ /\ IsJsonText(storage)
                /\ SameFields(heap'[getSession'], fromJSON(JsonParse(storage)))
          /\ (~lastCall.storeThrew /\ lastCall.name = "signOut") =>
                IsEmptySession(heap'[getSession'])
          /\ (~lastCall.storeThrew /\ ~IsEmptySession(heap[getSession])) =>
                \/ IsEmptySession(heap'[getSession'])
                \/ SameFields(heap'[getSession'], heap[getSession])]_vars

\* a signOut whose removeItem threw, followed by a restart: the signed-out
\* session is back and authenticated
C27_Witness ==
    /\ lastCall.name = "restart"
    /\ lastCall.beforeName = "signOut"
    /\ ~lastCall.storeThrew
    /\ heap[getSession].accessToken = Str("tok2")
    /\ isAuthenticated(heap[getSession], now)

\* a step in which signInWithToken was called
TokenSignInStep ==
    lastCall'.name = "signInWithToken" /\ lastCall'.seq # lastCall.seq

\* C29: the session signInWithToken installs has expiresAt equal to the
\* sign-in time plus expiresIn * 1000 ms for every payload whose expiresIn is
\* a number, 0 included, and a null expiresAt only when expiresIn is
\* undefined or null.
C29_ExpiryFromExpiresIn ==
    [][TokenSignInStep =>
          LET expiresIn == lastCall'.payload.expiresIn
              s == heap'[getSession']
          IN  IF expiresIn \in {Undefined, Null}
              THEN s.expiresAt = Null
              ELSE s.expiresAt = DateOf(now + expiresIn[2] * 1000)]_vars

(***************************************************************************)
(* More properties of executeQuery (QuerySpec)                             *)
(***************************************************************************)
\* C28: whenever executeQuery has resolved, the Query it ran has status
\* "completed" and a null lastError, also when an earlier run of the same
\* Query object ended with status "failed" and a populated lastError.
C28_SuccessClearsLastError ==
    run.pc = "resolved" =>
        /\ qobj.status = Str("completed")
        /\ qobj.lastError = Null

====
